---- MODULE Spec2Model ----
(***************************************************************************)
(* Model of the LedFx -> iCUE bridge (src/ledfx_icue_core.py): the UDP     *)
(* protocol decoders and the reactive runtime loop of run_bridge with its  *)
(* reconnect / mode-change state machine.                                  *)
(*                                                                         *)
(* Time is counted in integer ticks of the monotonic clock.  Python's 0.0  *)
(* timestamps ("never") are the tick 0; the clock itself starts above 0.   *)
(* One device is plugged in when run_bridge starts, so that every mode     *)
(* runs one Group; a later enumeration may find any set of devices.        *)
(***************************************************************************)
EXTENDS Integers, Sequences, FiniteSets, TLC

(***************************************************************************)
(* Bounds of the model.                                                    *)
(***************************************************************************)
\* the monotonic clock stops advancing at this tick
MaxTime ==
  3

\* ... and at this tick in a session in which the operator leaves the mode
\* alone
MaxTimeLong ==
  5

\* the number of Group entries in cfg["groups"]
MaxCfgGroups ==
  3

\* the number of bytes that follow the header of a datagram
MaxBody ==
  9

\* the number of LEDs of a pump face
MaxPumpLeds ==
  4

\* the number of LEDs of a device with fans, and the number of indices of
\* a configured group order
MaxFanLeds ==
  4

MaxGroupOrder ==
  3

(***************************************************************************)
(* Python helpers: 0-based indexing, clipped slices, slice assignment.     *)
(***************************************************************************)
Min(a, b) ==
  IF a <= b THEN a ELSE b

Max(a, b) ==
  IF a >= b THEN a ELSE b

\* data[i] with a 0-based index (the caller guarantees i < len(data))
At(s, i) ==
  s[i + 1]

\* s[a:b] for 0 <= a, 0 <= b, clipped to the sequence as Python does
Slice(s, a, b) ==
  LET lo == Min(a, Len(s))
      hi == Min(b, Len(s))
  IN  IF hi <= lo THEN << >> ELSE SubSeq(s, lo + 1, hi)

\* s[a:]
SliceFrom(s, a) ==
  Slice(s, a, Len(s))

\* s[a:b] = src on a bytearray (the result is resized when the lengths differ)
SliceAssign(s, a, b, src) ==
  LET lo == Min(a, Len(s))
      hi == Max(lo, Min(b, Len(s)))
  IN  Slice(s, 0, lo) \o src \o SliceFrom(s, hi)

\* b"\x00" * n
Zeros(n) ==
  [i \in 1..n |-> 0]

\* s[i] = v with a 0-based index
SetAt(s, i, v) ==
  [s EXCEPT ![i + 1] = v]

RECURSIVE FromBytesBig(_)
\* int.from_bytes(s, "big"); the empty byte string gives 0
FromBytesBig(s) ==
  IF s = << >> THEN 0
  ELSE FromBytesBig(SubSeq(s, 1, Len(s) - 1)) * 256 + s[Len(s)]

(***************************************************************************)
(* Protocol decoders.                                                      *)
(***************************************************************************)
\* header_len = 14 if (data[0] & 0x10) else 10
DdpHeaderLen(data) ==
  IF (At(data, 0) \div 16) % 2 = 1 THEN 14 ELSE 10

\* variant of the classifier that does not look at the version bits
looks_like_ddp_any_version(data) ==
  IF Len(data) < 10 THEN FALSE
  ELSE IF Len(data) < DdpHeaderLen(data) THEN FALSE
  ELSE LET length == FromBytesBig(Slice(data, 8, 10))
           payload_len == Len(data) - DdpHeaderLen(data)
       IN  length = 0 \/ length <= payload_len \/ length * 3 = payload_len

looks_like_ddp(data) ==
  IF Len(data) < 10 THEN FALSE
  ELSE IF (At(data, 0) \div 64) % 4 = 0 THEN FALSE
  ELSE IF Len(data) < DdpHeaderLen(data) THEN FALSE
  ELSE LET length == FromBytesBig(Slice(data, 8, 10))
           payload_len == Len(data) - DdpHeaderLen(data)
       IN  IF length = 0 THEN TRUE
           ELSE IF length <= payload_len THEN TRUE
           ELSE IF length * 3 = payload_len THEN TRUE
           ELSE FALSE

\* parse_ddp reads data[0] first: an empty datagram raises IndexError
parse_ddp_raises(data) ==
  Len(data) = 0

\* push = (data[0] & 0x01) != 0
DdpPush(data) ==
  At(data, 0) % 2 = 1

\* variant of parse_ddp that ignores the offset of the header
parse_ddp_buffer_at_zero(data, frame_buffer) ==
  LET payload == SliceFrom(data, DdpHeaderLen(data))
      end == Min(Len(frame_buffer), Len(payload))
  IN  SliceAssign(frame_buffer, 0, end, Slice(payload, 0, end))

\* the frame buffer after parse_ddp(data, frame_buffer), for non-empty data
parse_ddp_buffer(data, frame_buffer) ==
  LET header_len == DdpHeaderLen(data)
      offset == FromBytesBig(Slice(data, 4, 8))
      length0 == FromBytesBig(Slice(data, 8, 10))
      payload0 == SliceFrom(data, header_len)
      length == IF length0 # 0 /\ length0 * 3 = Len(payload0)
                THEN Len(payload0) ELSE length0
      payload == IF length # 0 /\ Len(payload0) > length
                 THEN Slice(payload0, 0, length) ELSE payload0
  IN  IF offset < Len(frame_buffer)
      THEN LET end == Min(Len(frame_buffer), offset + Len(payload))
           IN  SliceAssign(frame_buffer, offset, end, Slice(payload, 0, end - offset))
      ELSE frame_buffer

\* variant of parse_ddp that reports every datagram as pushed
parse_ddp_pushed(data, frame_buffer) ==
  TRUE

\* the value returned by parse_ddp, for non-empty data
parse_ddp(data, frame_buffer) ==
  DdpPush(data)

_clear_tail(frame_buffer, start) ==
  IF start < Len(frame_buffer)
  THEN SliceAssign(frame_buffer, start, Len(frame_buffer),
                   Zeros(Len(frame_buffer) - start))
  ELSE frame_buffer

\* variant of the dense copy that leaves the rest of the buffer as it is
DenseCopyNoClear(payload, frame_buffer) ==
  LET copy_len == Min(Len(frame_buffer), Len(payload))
  IN  SliceAssign(frame_buffer, 0, copy_len, Slice(payload, 0, copy_len))

\* copy_len = min(len(fb), len(payload)); fb[:copy_len] = payload[:copy_len];
\* if len(payload) < len(fb): _clear_tail(fb, copy_len)
DenseCopy(payload, frame_buffer) ==
  LET copy_len == Min(Len(frame_buffer), Len(payload))
      copied == SliceAssign(frame_buffer, 0, copy_len, Slice(payload, 0, copy_len))
  IN  IF Len(payload) < Len(frame_buffer) THEN _clear_tail(copied, copy_len)
      ELSE copied

RECURSIVE Wled1Loop(_, _, _)
\* sub-protocol 1: [index, r, g, b] quads, for i in range(0, len(payload), 4)
Wled1Loop(payload, i, fb) ==
  IF i >= Len(payload) THEN fb
  ELSE IF i + 3 >= Len(payload) THEN fb
  ELSE LET offset == At(payload, i) * 3
       IN  IF offset + 2 >= Len(fb) THEN Wled1Loop(payload, i + 4, fb)
           ELSE Wled1Loop(payload, i + 4,
                  SetAt(SetAt(SetAt(fb, offset, At(payload, i + 1)),
                              offset + 1, At(payload, i + 2)),
                        offset + 2, At(payload, i + 3)))

RECURSIVE Wled3Loop(_, _, _, _)
\* sub-protocol 3: 4-byte stride input compacted to 3-byte stride output
Wled3Loop(payload, i, out, fb) ==
  IF i >= Len(payload) THEN fb
  ELSE IF i + 2 >= Len(payload) \/ out + 2 >= Len(fb) THEN fb
  ELSE Wled3Loop(payload, i + 4, out + 3,
         SetAt(SetAt(SetAt(fb, out, At(payload, i)),
                     out + 1, At(payload, i + 1)),
               out + 2, At(payload, i + 2)))

RECURSIVE Wled4Loop(_, _, _, _)
\* sub-protocol 4: dense RGB from a 2-byte big-endian start index
Wled4Loop(payload, start, i, fb) ==
  IF i >= Len(payload) THEN fb
  ELSE LET offset == (start + (i \div 3)) * 3
       IN  IF i + 2 >= Len(payload) \/ offset + 2 >= Len(fb) THEN fb
           ELSE Wled4Loop(payload, start, i + 3,
                  SetAt(SetAt(SetAt(fb, offset, At(payload, i)),
                              offset + 1, At(payload, i + 1)),
                        offset + 2, At(payload, i + 2)))

\* the trailing raw fallback of parse_wled_or_raw
RawFallback(data, frame_buffer) ==
  IF Len(data) % 3 = 0 THEN DenseCopy(data, frame_buffer) ELSE frame_buffer

\* the frame buffer after parse_wled_or_raw(data, frame_buffer)
parse_wled_or_raw(data, frame_buffer) ==
  IF Len(data) = 0 THEN frame_buffer
  ELSE LET proto == At(data, 0)
       IN  IF proto \in {1, 2, 3, 4} /\ Len(data) >= 2
           THEN IF proto = 2 /\ (Len(data) - 1) % 3 = 0
                THEN DenseCopy(SliceFrom(data, 1), frame_buffer)
                ELSE IF proto = 1
                THEN Wled1Loop(SliceFrom(data, 2), 0, frame_buffer)
                ELSE IF proto = 2
                THEN DenseCopy(SliceFrom(data, 2), frame_buffer)
                ELSE IF proto = 3
                THEN Wled3Loop(SliceFrom(data, 2), 0, 0, frame_buffer)
                ELSE IF Len(data) < 4 THEN frame_buffer
                ELSE Wled4Loop(SliceFrom(data, 4),
                               At(data, 2) * 256 + At(data, 3), 0, frame_buffer)
           ELSE RawFallback(data, frame_buffer)

\* variant of the raw protocol branch that assigns the whole datagram
RawCopyUnclipped(data, frame_buffer) ==
  SliceAssign(frame_buffer, 0, Min(Len(frame_buffer), Len(data)), data)

\* the raw protocol branch of the packet loop: the buffer, when len(data) % 3 = 0
RawCopy(data, frame_buffer) ==
  SliceAssign(frame_buffer, 0, Min(Len(frame_buffer), Len(data)),
              Slice(data, 0, Len(frame_buffer)))

(***************************************************************************)
(* Configuration read by run_bridge, in ticks.                             *)
(***************************************************************************)
\* cfg["icue_reconnect_cooldown"]
reconnect_cooldown ==
  3

\* cfg["icue_keepalive_interval"]
keepalive_interval ==
  2

\* cfg["icue_watchdog_interval"]
watchdog_interval ==
  2

\* cfg["icue_watchdog_fail_threshold"]
watchdog_fail_threshold ==
  2

\* cfg["icue_apply_fail_threshold"]
apply_fail_threshold ==
  2

\* max(0.2, cfg["unique_idle_clear_seconds"])
unique_idle_clear_s ==
  1

\* 1.0 / max_fps
min_interval ==
  1

\* cfg["group_port"] and cfg["fusion_port"] defaults
group_port ==
  34983

fusion_port ==
  34984

watchdog_enabled ==
  TRUE

watchdog_idle_only ==
  FALSE

skip_reconnect_when_idle ==
  TRUE

keepalive_enabled ==
  TRUE

keepalive_reapply ==
  TRUE

\* cfg["unique_idle_clear"]
unique_idle_clear ==
  TRUE

\* normalize_protocol(cfg.get("protocol"), "drgb")
default_protocol ==
  "wled"

Modes ==
  {"unique", "group", "fusion"}

\* the enumerable devices, one LED each: d1 is a keyboard, d2 a device of a
\* type that no category of the fusion topology selects
Devices ==
  {"d1", "d2"}

FusionDevices ==
  {"d1"}

\* the devices found when run_bridge starts: the one that is plugged in
StartDevices ==
  {{d} : d \in Devices}

\* a device the SDK reports without any LED
ZeroLedDevices ==
  {"d0"}

\* self.devices after IcueMapper.enumerate found `found`: a device without
\* LED colours is skipped
Lit(found) ==
  found \ ZeroLedDevices

\* cfg["groups"] of the running bridge: g1 selects d1, g2 selects d2
CfgGroups ==
  << "g1", "g2" >>

\* the Group entries a config.json may list: g3 selects d2 on the port of
\* g1, g4 selects d1 and d2, g5 has no udp_port, g6 selects d0 (a device
\* that is never enumerated) on the port of g2
CfgNames ==
  {"g1", "g2", "g3", "g4", "g5", "g6"}

\* the devices the filters of a Group entry select
CfgDevices(name) ==
  CASE name = "g1" -> {"d1"}
    [] name = "g4" -> {"d1", "d2"}
    [] name = "g5" -> {"d1"}
    [] name = "g6" -> {"d0"}
    [] OTHER -> {"d2"}

\* "udp_port" in grp
HasUdpPort(name) ==
  name # "g5"

\* (udp_host, udp_port) of a Group; every Group listens on cfg["udp_host"]
PortOf(name) ==
  CASE name \in {"g1", "g3"} -> 21324
    [] name \in {"g2", "g6"} -> 21325
    [] name = "g4" -> 21326
    [] name = "groupe" -> group_port
    [] OTHER -> fusion_port

\* grp.get("idle_clear_seconds"): << >> is None
CfgIdleClearSeconds(name) ==
  IF name = "g1" THEN << 2 >> ELSE << >>

\* bool(grp.get("idle_clear_disabled", False))
CfgIdleClearDisabled(name) ==
  FALSE

\* the Group's keepalive_reapply is not False
GroupKeepaliveReapply(name) ==
  TRUE

\* the datagrams a sender may emit
Datagrams ==
  { << >>,
    << 65, 0, 0, 0, 0, 0, 0, 0, 0, 3, 1, 2, 3 >>,
    << 64, 0, 0, 0, 0, 0, 0, 0, 0, 3, 1, 2, 3 >>,
    << 9, 9 >>,
    << 1, 2, 3 >>,
    << 2, 5 >> }

ApplyResults ==
  {"ok", "fail", "exc"}

VARIABLES
  clock,          \* time.monotonic()
  now,            \* the loop's timestamp of the current iteration
  pc,             \* position of run_bridge in its loop
  mode,
  unique_idle_clear_enabled,
  protocols,      \* the configured protocol of g1 and g2
  mapper,         \* [devices]: the devices it enumerated
  groups,         \* sequence of Group ids
  runtime_groups, \* sequence of Group ids
  sel,            \* [reg]: the selector's registered sockets
  G,              \* the Group objects by id << number, name >>
  sockOpen,       \* the open (bound) sockets; a socket carries its Group's id
  events,         \* the ready Groups returned by sel.select
  todo,           \* rest of the list the current loop walks
  any_active_recent,
  cfg_groups,     \* cfg["groups"], the Group entries of config.json
  update_state,   \* [inflight, pending, last_notified] of the version check
  update_threads, \* update_lock, update_last_check and the worker threads
  last_reconnect,
  last_watchdog,
  watchdog_fail_count,
  lastCall,       \* history: the last attempt_reconnect call, << t, performed >>
  lastPerf,       \* history: the time of the last performed attempt, 0 = none
  lastOp          \* history: what the last step did

\* the variables attempt_reconnect may assign
rsVars ==
  << last_reconnect, mapper, groups, runtime_groups, sel, G, sockOpen >>

\* the variables of the version check
updVars ==
  << update_state, update_threads >>

\* fixed when the loop starts; the version check is off unless
\* cfg["update_repo"] names a repository
cfgVars ==
  << protocols, unique_idle_clear_enabled, cfg_groups, updVars >>

histVars ==
  << lastCall, lastPerf >>

wdVars ==
  << last_watchdog, watchdog_fail_count >>

vars ==
  << clock, now, pc, mode, cfgVars, rsVars, events, todo, any_active_recent,
     wdVars, histVars, lastOp >>

(***************************************************************************)
(* Topology and runtime setup.                                             *)
(***************************************************************************)
SeqToSet(s) ==
  {s[i] : i \in 1..Len(s)}

RECURSIVE SelectSeq2(_, _)
\* the elements of s that are in S, in order
SelectSeq2(s, S) ==
  IF s = << >> THEN << >>
  ELSE IF Head(s) \in S THEN << Head(s) >> \o SelectSeq2(Tail(s), S)
  ELSE SelectSeq2(Tail(s), S)

\* the list `selected` of build_groups for the Group entry `name`, as a set
SelectedDevices(name, devices) ==
  CfgDevices(name) \cap devices

RECURSIVE BuildGroupsLax(_, _, _, _)
\* variant of the loop of build_groups without the check against used_ids
BuildGroupsLax(cfg, devices, done, used_ids) ==
  IF cfg = << >> THEN [ok |-> TRUE, names |-> done]
  ELSE LET name == Head(cfg)
           selected == SelectedDevices(name, devices)
       IN  IF ~HasUdpPort(name) THEN [ok |-> FALSE, names |-> done]
           ELSE IF selected = {}
           THEN BuildGroupsLax(Tail(cfg), devices, done, used_ids)
           ELSE BuildGroupsLax(Tail(cfg), devices, Append(done, name),
                               used_ids \cup selected)

RECURSIVE BuildGroupsWalk(_, _, _, _)
\* the loop of build_groups over the Group entries `cfg`: [ok, names], the
\* Groups appended so far, and ok = FALSE when a RuntimeError ended it
BuildGroupsWalk(cfg, devices, done, used_ids) ==
  IF cfg = << >> THEN [ok |-> TRUE, names |-> done]
  ELSE LET name == Head(cfg)
           selected == SelectedDevices(name, devices)
       IN  IF ~HasUdpPort(name) THEN [ok |-> FALSE, names |-> done]
           ELSE IF selected = {}
           THEN BuildGroupsWalk(Tail(cfg), devices, done, used_ids)
           ELSE IF selected \cap used_ids # {}
           THEN [ok |-> FALSE, names |-> done]
           ELSE BuildGroupsWalk(Tail(cfg), devices, Append(done, name),
                                used_ids \cup selected)

\* build_groups(cfg_groups, mapper, ...)
build_groups(cfg, devices) ==
  BuildGroupsWalk(cfg, devices, << >>, {})

\* get_groups_for_mode: [ok, names]; ok = FALSE is a RuntimeError
get_groups_for_mode(m, devices) ==
  IF m = "group" THEN [ok |-> TRUE, names |-> << "groupe" >>]
  ELSE IF m = "fusion"
  THEN IF devices \cap FusionDevices = {} THEN [ok |-> FALSE, names |-> << >>]
       ELSE [ok |-> TRUE, names |-> << "fusion" >>]
  ELSE LET b == build_groups(cfg_groups, devices)
       IN  [ok |-> b.ok /\ b.names # << >>, names |-> b.names]

\* "device_ids" of the Group `name` built on the enumerated devices
DeviceIds(name, devices) ==
  IF name = "groupe" THEN devices
  ELSE IF name = "fusion" THEN devices \cap FusionDevices
  ELSE SelectedDevices(name, devices)

\* led_count of a Group built on the enumerated devices
LedCount(name, devices) ==
  IF name = "groupe" THEN Cardinality(devices)
  ELSE IF name = "fusion" THEN Cardinality(devices \cap FusionDevices)
  ELSE Cardinality(devices \cap CfgDevices(name))

ProtocolOf(name) ==
  IF name \in DOMAIN protocols THEN protocols[name] ELSE default_protocol

\* the Group dict after setup_runtime initialised it at time t
NewGroup(name, devices, t) ==
  [ name |-> name,
    protocol |-> ProtocolOf(name),
    led_count |-> LedCount(name, devices),
    idle_clear_disabled |-> IF name \in CfgNames
                            THEN CfgIdleClearDisabled(name) ELSE FALSE,
    idle_clear_seconds |-> IF name \in CfgNames
                           THEN CfgIdleClearSeconds(name) ELSE << >>,
    frame_buffer |-> Zeros(LedCount(name, devices) * 3),
    last_send |-> t,
    last_packet_ts |-> 0,
    fail_count |-> 0,
    idle_cleared |-> FALSE,
    ddp_auto |-> FALSE,
    last_keepalive |-> t,
    \* history: since the last packet an idle-clear apply_frame_map was
    \* called, and one returned True
    idle_called |-> FALSE,
    idle_ok |-> FALSE ]

PortsOf(socks) ==
  {PortOf(s[2]) : s \in socks}

RECURSIVE SetupWalkLax(_, _, _, _)
\* variant of the loop of setup_runtime without the test "host_port in bound"
SetupWalkLax(names, devices, done, held) ==
  IF names = << >> THEN [ok |-> TRUE, names |-> done]
  ELSE LET n == Head(names)
       IN  IF LedCount(n, devices) <= 0
           THEN SetupWalkLax(Tail(names), devices, done, held)
           ELSE IF PortOf(n) \in held
           THEN [ok |-> FALSE, names |-> done]
           ELSE SetupWalkLax(Tail(names), devices, Append(done, n), held)

RECURSIVE SetupWalk(_, _, _, _)
\* the loop of setup_runtime over the Groups `names`; `held` are the ports
\* bound by the open sockets.  [ok, names]: the Groups bound so far, and
\* ok = FALSE when a duplicate port (RuntimeError) or a bind error ended it.
SetupWalk(names, devices, done, held) ==
  IF names = << >> THEN [ok |-> TRUE, names |-> done]
  ELSE LET n == Head(names)
       IN  IF LedCount(n, devices) <= 0
           THEN SetupWalk(Tail(names), devices, done, held)
           ELSE IF PortOf(n) \in {PortOf(m) : m \in SeqToSet(done)}
           THEN [ok |-> FALSE, names |-> done]
           ELSE IF PortOf(n) \in held
           THEN [ok |-> FALSE, names |-> done]
           ELSE SetupWalk(Tail(names), devices, Append(done, n), held)

\* the Group `name` made by a setup_runtime is a new object: it carries a
\* number that no object of that name still referenced carries
FreshId(name, objs) ==
  << CHOOSE n \in 0..Cardinality(objs) : << n, name >> \notin objs, name >>

\* setup_runtime(groups) at time t
setup_runtime(names, devices, t, socks, objs) ==
  LET w == SetupWalk(names, devices, << >>, PortsOf(socks))
      ids == [i \in 1..Len(w.names) |-> FreshId(w.names[i], objs \cup socks)]
  IN  [ ok |-> w.ok,
        ids |-> ids,
        objs |-> [id \in SeqToSet(ids) |-> NewGroup(id[2], devices, t)],
        opened |-> SeqToSet(ids) ]

\* variant of close_runtime that leaves every socket open
close_runtime_none(rt, socks) ==
  socks

\* the sockets left open by close_runtime(sel, runtime_groups)
close_runtime_socks(rt, socks) ==
  socks \ SeqToSet(rt)

\* the selector after close_runtime(sel, runtime_groups)
close_runtime_sel(s, rt) ==
  [s EXCEPT !.reg = @ \ SeqToSet(rt)]

(***************************************************************************)
(* attempt_reconnect, on the record rs of the variables it may assign.     *)
(***************************************************************************)
CurRS ==
  [ last_reconnect |-> last_reconnect, mapper |-> mapper, groups |-> groups,
    runtime_groups |-> runtime_groups, sel |-> sel, G |-> G,
    sockOpen |-> sockOpen ]

\* the variables take the values of rs; of the Group objects that are no
\* longer running, only those in `keep` are still referenced
SetRS(rs, keep) ==
  /\ last_reconnect' = rs.last_reconnect
  /\ mapper' = rs.mapper
  /\ groups' = rs.groups
  /\ runtime_groups' = rs.runtime_groups
  /\ sel' = rs.sel
  /\ G' = [id \in DOMAIN rs.G \cap (SeqToSet(rs.runtime_groups) \cup keep) |-> rs.G[id]]
  /\ sockOpen' = rs.sockOpen

\* every Group object and socket that is still referenced
LiveObjects(rs) ==
  DOMAIN rs.G \cup rs.sockOpen \cup rs.sel.reg \cup SeqToSet(events)
    \cup SeqToSet(todo)

\* (time.monotonic() - last_reconnect) < reconnect_cooldown
CooldownActive(t, last) ==
  (t - last) < reconnect_cooldown

\* variant of the except branch that tears the running state down
RebuildFailedClosing(rs, leaked) ==
  [rs EXCEPT !.sockOpen = (@ \ SeqToSet(rs.runtime_groups)) \cup leaked,
             !.sel = close_runtime_sel(@, rs.runtime_groups)]

\* the except branch: the rebuild raised, its sockets bound so far stay open
\* and unreferenced, nothing is assigned
RebuildFailed(rs, leaked) ==
  [rs EXCEPT !.sockOpen = @ \cup leaked]

\* close_runtime(sel, runtime_groups), then the new objects are assigned
SwapRuntime(rs, su, devs) ==
  [rs EXCEPT !.mapper = [devices |-> devs],
             !.groups = su.ids,
             !.runtime_groups = su.ids,
             !.sel = [reg |-> su.opened],
             !.G = [id \in DOMAIN rs.G \cup DOMAIN su.objs |->
                      IF id \in DOMAIN su.objs THEN su.objs[id] ELSE rs.G[id]],
             !.sockOpen = close_runtime_socks(rs.runtime_groups, @) \cup su.opened]

\* attempt_reconnect(reason) called at time t when is_icue_connected answers
\* `connected` and the enumeration finds `devs`: [rs, stage]
attempt_reconnect(rs, m, t, connected, devs) ==
  IF CooldownActive(t, rs.last_reconnect) THEN [rs |-> rs, stage |-> "cooldown"]
  ELSE LET rs1 == [rs EXCEPT !.last_reconnect = t]
       IN  IF ~connected THEN [rs |-> rs1, stage |-> "notready"]
           ELSE IF devs = {}
           THEN [rs |-> RebuildFailed(rs1, {}), stage |-> "buildfail"]
           ELSE LET gg == get_groups_for_mode(m, devs)
                    su == setup_runtime(gg.names, devs, t, rs.sockOpen,
                                        LiveObjects(rs))
                IN  IF ~gg.ok
                    THEN [rs |-> RebuildFailed(rs1, {}), stage |-> "buildfail"]
                    ELSE IF ~su.ok
                    THEN [rs |-> RebuildFailed(rs1, su.opened), stage |-> "setupfail"]
                    ELSE [rs |-> SwapRuntime(rs1, su, devs), stage |-> "done"]

\* no attempt_reconnect call
NoReconnect(rs) ==
  [rs |-> rs, stage |-> "none"]

\* the inputs of a reconnect attempt, drawn only when one is made
ConnectedInputs(called) ==
  IF called THEN BOOLEAN ELSE {FALSE}

DeviceInputs(called) ==
  IF called THEN SUBSET Devices ELSE {{}}

\* sdk.connect() was called
Performed(stage) ==
  stage \notin {"none", "cooldown"}

\* the call history after a step whose reconnect stage is `stage`
SetHist(stage, t) ==
  /\ lastCall' = IF stage = "none" THEN lastCall ELSE << t, Performed(stage) >>
  /\ lastPerf' = IF Performed(stage) THEN t ELSE lastPerf

NoOp(op) ==
  [ op |-> op, g |-> << >>, data |-> << >>, decoder |-> "none",
    received |-> FALSE, applied |-> FALSE, res |-> "none", rate_dropped |-> FALSE,
    requested |-> "none", prev_mode |-> "none", ddp_like |-> FALSE,
    args |-> << >>, result |-> << >>,
    no_packet_before |-> FALSE, fb_before |-> << >>, last_send_before |-> 0,
    called_before |-> FALSE, ok_before |-> FALSE, cleared_before |-> FALSE, reconn |-> "none",
    prev_call |-> << >>, prev_performed |-> 0 ]

(***************************************************************************)
(* Initial state: run_bridge entering its loop.                            *)
(***************************************************************************)
\* time.monotonic() has an undefined reference point
StartTimes ==
  {1}

ProtocolChoices ==
  [g1 : {"ddp"}, g2 : {"raw", "auto"}]

Init ==
  \E t0 \in StartTimes, m \in Modes, devs \in StartDevices, pr \in ProtocolChoices :
    /\ cfg_groups = CfgGroups
    /\ update_state = [inflight |-> FALSE, pending |-> << >>, last_notified |-> << >>]
    /\ update_threads = [lock |-> << >>, last_check |-> 0, pending |-> << >>,
                         workers |-> << >>, started |-> 0, notified |-> << >>]
    /\ get_groups_for_mode(m, devs).ok
    /\ protocols = pr
    /\ clock = t0
    /\ now = t0
    /\ pc = "select"
    /\ mode = m
    /\ unique_idle_clear_enabled = (m = "unique" /\ unique_idle_clear)
    /\ mapper = [devices |-> devs]
    /\ LET names == get_groups_for_mode(m, devs).names
           ids == [i \in 1..Len(names) |-> << 0, names[i] >>]
       IN  /\ groups = ids
           /\ runtime_groups = ids
           /\ sel = [reg |-> SeqToSet(ids)]
           /\ G = [id \in SeqToSet(ids) |-> NewGroup(id[2], devs, t0)]
           /\ sockOpen = SeqToSet(ids)
    /\ events = << >>
    /\ todo = << >>
    /\ any_active_recent = FALSE
    /\ last_reconnect = 0
    /\ last_watchdog = t0
    /\ watchdog_fail_count = 0
    /\ lastCall = << >>
    /\ lastPerf = 0
    /\ lastOp = NoOp("init")

(***************************************************************************)
(* The loop of run_bridge, one action per step of an iteration.            *)
(***************************************************************************)
Running ==
  pc \in {"select", "window", "keepalive", "reapply", "idle", "watchdog", "packets"}

\* sockets bound by a setup_runtime that raised are referenced by nothing:
\* the interpreter closes them when it collects them
CollectGarbage ==
  /\ Running
  /\ sockOpen \ DOMAIN G # {}
  /\ sockOpen' = sockOpen \cap DOMAIN G
  /\ lastOp' = NoOp("gc")
  /\ UNCHANGED << clock, now, pc, mode, cfgVars, last_reconnect, mapper, groups,
                  runtime_groups, sel, G, events, todo, any_active_recent,
                  wdVars, histVars >>

\* events = sel.select(timeout=0.5); now = time.monotonic().  The clock
\* advances while the loop waits; the rest of an iteration takes no tick.
SelectUntil(limit) ==
  /\ pc = "select"
  /\ \E d \in {0, 1} :
       /\ clock + d <= limit
       /\ clock' = clock + d
       /\ now' = clock + d
  /\ \E ready \in SUBSET (SeqToSet(runtime_groups) \cap sel.reg \cap sockOpen) :
       events' = SelectSeq2(runtime_groups, ready)
  /\ pc' = "window"
  /\ lastOp' = NoOp("select")
  /\ UNCHANGED << mode, cfgVars, rsVars, todo, any_active_recent, wdVars, histVars >>

Select ==
  SelectUntil(MaxTime)

\* _MODE_WINDOW.poll() returns nothing, or the mode that is running
WindowIdle ==
  /\ pc = "window"
  /\ pc' = "keepalive"
  /\ lastOp' = NoOp("window")
  /\ UNCHANGED << clock, now, mode, cfgVars, rsVars, events, todo,
                  any_active_recent, wdVars, histVars >>

\* gui_mode == _MODE_EXIT: return 0
WindowExit ==
  /\ pc = "window"
  /\ pc' = "returned"
  /\ lastOp' = NoOp("window_exit")
  /\ UNCHANGED << clock, now, mode, cfgVars, rsVars, events, todo,
                  any_active_recent, wdVars, histVars >>

\* apply_mode_change(new_mode); a setup_runtime that raises ends run_bridge
apply_mode_change(new_mode) ==
  LET closedSocks == close_runtime_socks(runtime_groups, sockOpen)
      closedSel == close_runtime_sel(sel, runtime_groups)
      gg0 == get_groups_for_mode(new_mode, mapper.devices)
      m1 == IF gg0.ok THEN new_mode ELSE "group"
      gg == IF gg0.ok THEN gg0 ELSE get_groups_for_mode("group", mapper.devices)
      su == setup_runtime(gg.names, mapper.devices, clock, closedSocks,
                          LiveObjects(CurRS))
  IN  /\ mode' = m1
      /\ IF su.ok
         THEN /\ groups' = su.ids
              /\ runtime_groups' = su.ids
              /\ sel' = [reg |-> su.opened]
              /\ G' = su.objs
              /\ sockOpen' = closedSocks \cup su.opened
              /\ pc' = "keepalive"
         ELSE /\ groups' = groups
              /\ runtime_groups' = runtime_groups
              /\ sel' = closedSel
              /\ G' = G
              /\ sockOpen' = closedSocks \cup su.opened
              /\ pc' = "crashed"

WindowModeChange ==
  /\ pc = "window"
  /\ \E gui_mode \in Modes \ {mode} :
       /\ apply_mode_change(gui_mode)
       /\ lastOp' = [NoOp("mode_change") EXCEPT
                       !.requested = gui_mode, !.prev_mode = mode]
  /\ UNCHANGED << clock, now, cfgVars, last_reconnect, mapper, events, todo,
                  any_active_recent, wdVars, histVars >>

\* except KeyboardInterrupt: close_runtime(sel, runtime_groups); return 0
KeyboardInterrupt ==
  /\ Running
  /\ sockOpen' = close_runtime_socks(runtime_groups, sockOpen)
  /\ sel' = close_runtime_sel(sel, runtime_groups)
  /\ pc' = "returned"
  /\ lastOp' = NoOp("interrupt")
  /\ UNCHANGED << clock, now, mode, cfgVars, last_reconnect, mapper, groups,
                  runtime_groups, G, events, todo, any_active_recent, wdVars,
                  histVars >>

\* any(last_packet_ts and (now - last_packet_ts) < keepalive_interval ...)
AnyActiveRecent(t) ==
  \E id \in SeqToSet(runtime_groups) :
    G[id].last_packet_ts # 0 /\ (t - G[id].last_packet_ts) < keepalive_interval

\* the keepalive timer of the Group has run out
KeepaliveElapsed(g, t) ==
  ~(t - g.last_keepalive < keepalive_interval)

\* the Group is appended to due_groups
KeepaliveDue(g, t) ==
  /\ KeepaliveElapsed(g, t)
  /\ GroupKeepaliveReapply(g.name)
  /\ g.last_packet_ts # 0
  /\ ~((t - g.last_packet_ts) < keepalive_interval)
  /\ ~(g.last_send <= 0)

\* the idle-clear loop walks runtime_groups when
\* unique_idle_clear_enabled and any_active_recent
IdleTodo(active, rt) ==
  IF unique_idle_clear_enabled /\ active THEN rt ELSE << >>

\* where the loop goes on after the keepalive block
AfterKeepalive(active, rt) ==
  IF IdleTodo(active, rt) = << >> THEN [pc |-> "watchdog", todo |-> << >>]
  ELSE [pc |-> "idle", todo |-> IdleTodo(active, rt)]

\* any_active_recent, then the keepalive scan that collects due_groups
KeepaliveScan ==
  /\ pc = "keepalive"
  /\ any_active_recent' = AnyActiveRecent(now)
  /\ G' = [id \in DOMAIN G |->
             IF keepalive_enabled /\ KeepaliveElapsed(G[id], now)
             THEN [G[id] EXCEPT !.last_keepalive = now] ELSE G[id]]
  /\ LET due == IF keepalive_enabled /\ keepalive_reapply
                THEN SelectSeq2(runtime_groups,
                       {id \in SeqToSet(runtime_groups) : KeepaliveDue(G[id], now)})
                ELSE << >>
         nxt == AfterKeepalive(AnyActiveRecent(now), runtime_groups)
     IN  IF due = << >>
         THEN pc' = nxt.pc /\ todo' = nxt.todo
         ELSE pc' = "reapply" /\ todo' = due
  /\ lastOp' = NoOp("keepalive_scan")
  /\ UNCHANGED << clock, now, mode, cfgVars, last_reconnect, mapper, groups,
                  runtime_groups, sel, sockOpen, events, wdVars, histVars >>

\* the reconnect is skipped because every Group is idle
SkipWhenIdle ==
  skip_reconnect_when_idle /\ ~any_active_recent

\* variant of the counting that never resets the counter at the threshold
CountFailureNoReset(g, res) ==
  IF res = "fail"
  THEN [g |-> [g EXCEPT !.fail_count = @ + 1],
        escalate |-> g.fail_count + 1 >= apply_fail_threshold]
  ELSE [g |-> g, escalate |-> FALSE]

\* the Group after an apply_frame_map that returned `res`, for the counting
\* of unsuccessful applies; [g, escalate]
CountFailure(g, res) ==
  IF res = "fail"
  THEN IF g.fail_count + 1 >= apply_fail_threshold
       THEN [g |-> [g EXCEPT !.fail_count = 0], escalate |-> TRUE]
       ELSE [g |-> [g EXCEPT !.fail_count = @ + 1], escalate |-> FALSE]
  ELSE [g |-> g, escalate |-> FALSE]

\* one turn of "for g, interval in due_groups": the keepalive re-apply
KeepaliveReapply ==
  /\ pc = "reapply"
  /\ todo # << >>
  /\ \E res \in ApplyResults :
       LET id == Head(todo)
           cf == CountFailure(G[id], res)
           called == (cf.escalate \/ res = "exc") /\ ~SkipWhenIdle
           rs0 == [CurRS EXCEPT !.G = [G EXCEPT ![id] = cf.g]]
       IN  \E connected \in ConnectedInputs(called), devs \in DeviceInputs(called) :
             LET r == IF called
                      THEN attempt_reconnect(rs0, mode, clock, connected, devs)
                      ELSE NoReconnect(rs0)
                 nxt == AfterKeepalive(any_active_recent, r.rs.runtime_groups)
             IN  /\ SetRS(r.rs, SeqToSet(Tail(todo)))
                 /\ SetHist(r.stage, clock)
                 /\ IF Tail(todo) = << >>
                    THEN pc' = nxt.pc /\ todo' = nxt.todo
                    ELSE pc' = pc /\ todo' = Tail(todo)
                 /\ lastOp' = [NoOp("keepalive") EXCEPT
                                 !.g = id, !.applied = TRUE, !.res = res,
                                 !.reconn = r.stage,
                                 !.prev_call = lastCall,
                                 !.prev_performed = lastPerf]
  /\ UNCHANGED << clock, now, mode, cfgVars, events, any_active_recent, wdVars >>

\* clear_after of the Group
ClearAfter(g) ==
  IF g.idle_clear_seconds = << >> THEN unique_idle_clear_s
  ELSE g.idle_clear_seconds[1]

\* the Group passes every "continue" of the idle-clear loop
IdleClearDue(g, t) ==
  /\ ~g.idle_clear_disabled
  /\ g.last_packet_ts # 0
  /\ ~((t - g.last_packet_ts) < ClearAfter(g))
  /\ ~g.idle_cleared

\* variant in which the idle-clear never sets the flag
IdleClearedNever(g, res) ==
  g.idle_cleared

\* g["idle_cleared"] after the idle-clear apply_frame_map returned `res`
IdleClearedAfter(g, res) ==
  IF res = "ok" THEN TRUE ELSE g.idle_cleared

\* one turn of the idle-clear loop
IdleClearStep ==
  /\ pc = "idle"
  /\ todo # << >>
  /\ LET id == Head(todo)
         g == G[id]
     IN  IF IdleClearDue(g, now)
         THEN \E res \in ApplyResults :
                /\ G' = [G EXCEPT ![id] =
                           [g EXCEPT
                              !.frame_buffer = SliceAssign(@, 0, Len(@), Zeros(Len(@))),
                              !.last_send = IF res = "ok" THEN now ELSE @,
                              !.fail_count = IF res = "ok" THEN 0 ELSE @,
                              !.idle_cleared = IdleClearedAfter(g, res),
                              !.idle_called = TRUE,
                              !.idle_ok = @ \/ res = "ok"]]
                /\ lastOp' = [NoOp("idle_clear") EXCEPT
                                !.g = id, !.applied = TRUE, !.res = res,
                                !.fb_before = g.frame_buffer,
                                !.called_before = g.idle_called,
                                !.ok_before = g.idle_ok]
         ELSE /\ G' = G
              /\ lastOp' = [NoOp("idle_skip") EXCEPT !.g = id]
  /\ todo' = Tail(todo)
  /\ pc' = IF Tail(todo) = << >> THEN "watchdog" ELSE pc
  /\ UNCHANGED << clock, now, mode, cfgVars, last_reconnect, mapper, groups,
                  runtime_groups, sel, sockOpen, events, any_active_recent,
                  wdVars, histVars >>

\* active_recent of the watchdog
WatchdogActiveRecent(t) ==
  \E id \in SeqToSet(runtime_groups) : (t - G[id].last_packet_ts) < watchdog_interval

\* is_icue_connected is consulted by the watchdog
WatchdogChecks(t) ==
  /\ watchdog_enabled
  /\ t - last_watchdog >= watchdog_interval
  /\ ~(watchdog_idle_only /\ WatchdogActiveRecent(t))
  /\ ~(skip_reconnect_when_idle /\ ~WatchdogActiveRecent(t))

\* a variant of WatchdogFailCount that keeps the count on a successful check
WatchdogFailCountKept(count, due, failed, called) ==
  IF ~due THEN count
  ELSE IF failed /\ ~called THEN count + 1
  ELSE IF called THEN 0
  ELSE count

\* watchdog_fail_count after the watchdog block
WatchdogFailCount(count, due, failed, called) ==
  IF ~due THEN count
  ELSE IF failed /\ ~called THEN count + 1
  ELSE 0

\* the watchdog step; afterwards the loop walks the ready sockets
Watchdog ==
  /\ pc = "watchdog"
  /\ \E connected0 \in ConnectedInputs(WatchdogChecks(now)) :
       LET due == watchdog_enabled /\ now - last_watchdog >= watchdog_interval
           failed == WatchdogChecks(now) /\ ~connected0
           called == failed /\ watchdog_fail_count + 1 >= watchdog_fail_threshold
       IN  /\ last_watchdog' = IF due THEN now ELSE last_watchdog
           /\ watchdog_fail_count' =
                WatchdogFailCount(watchdog_fail_count, due, failed, called)
           /\ \E connected \in ConnectedInputs(called), devs \in DeviceInputs(called) :
                LET r == IF called
                         THEN attempt_reconnect(CurRS, mode, clock, connected, devs)
                         ELSE NoReconnect(CurRS)
                IN  /\ SetRS(r.rs, {})
                    /\ SetHist(r.stage, clock)
                    /\ lastOp' = [NoOp("watchdog") EXCEPT
                                    !.reconn = r.stage,
                                    !.prev_call = lastCall,
                                    !.prev_performed = lastPerf]
  /\ pc' = IF events = << >> THEN "select" ELSE "packets"
  /\ todo' = events
  /\ UNCHANGED << clock, now, mode, cfgVars, events, any_active_recent >>

\* the protocol dispatch of the packet loop on the Group g:
\* [decoder, raises, buffer, emit, ddp_auto]; emit = FALSE is "continue"
Decode(g, data) ==
  LET ddp_like == looks_like_ddp(data)
  IN  IF g.protocol = "ddp" \/ (g.protocol \in {"auto", "wled"} /\ ddp_like)
      THEN [ decoder |-> "ddp",
             raises |-> parse_ddp_raises(data),
             buffer |-> IF parse_ddp_raises(data) THEN g.frame_buffer
                        ELSE parse_ddp_buffer(data, g.frame_buffer),
             emit |-> IF parse_ddp_raises(data) THEN FALSE
                      ELSE parse_ddp(data, g.frame_buffer),
             ddp_auto |-> g.ddp_auto \/ (g.protocol = "wled" /\ ddp_like) ]
      ELSE IF g.protocol = "raw"
      THEN [ decoder |-> "raw",
             raises |-> FALSE,
             buffer |-> IF Len(data) % 3 = 0 THEN RawCopy(data, g.frame_buffer)
                        ELSE g.frame_buffer,
             emit |-> Len(data) % 3 = 0,
             ddp_auto |-> g.ddp_auto ]
      ELSE [ decoder |-> "wled",
             raises |-> FALSE,
             buffer |-> parse_wled_or_raw(data, g.frame_buffer),
             emit |-> TRUE,
             ddp_auto |-> g.ddp_auto ]

\* min_interval and now - g["last_send"] < min_interval
RateLimited(g, t) ==
  min_interval # 0 /\ t - g.last_send < min_interval

\* g["last_packet_ts"] = now; g["idle_cleared"] = False
MarkReceived(g, t) ==
  [g EXCEPT !.last_packet_ts = t, !.idle_cleared = FALSE,
            !.idle_called = FALSE, !.idle_ok = FALSE]

\* one turn of "for key, _ in events"; after the last one the next
\* iteration begins
ProcessPacket ==
  /\ pc = "packets"
  /\ todo # << >>
  /\ todo' = Tail(todo)
  /\ LET id == Head(todo)
         pcNext == IF Tail(todo) = << >> THEN "select" ELSE pc
     IN  IF id \notin sockOpen
         THEN \* sock.recvfrom raises on a closed socket: continue
              /\ lastOp' = [NoOp("packet") EXCEPT !.g = id]
              /\ pc' = pcNext
              /\ UNCHANGED << rsVars, histVars >>
         ELSE \E data \in Datagrams :
                LET g1 == MarkReceived(G[id], now)
                    d == Decode(g1, data)
                    g2 == [g1 EXCEPT !.frame_buffer = d.buffer, !.ddp_auto = d.ddp_auto]
                    op == [NoOp("packet") EXCEPT
                             !.g = id, !.data = data, !.decoder = d.decoder,
                             !.received = TRUE, !.fb_before = G[id].frame_buffer,
                             !.last_send_before = G[id].last_send,
                             !.no_packet_before = (G[id].last_packet_ts = 0),
                             !.cleared_before = G[id].idle_cleared]
                IN  IF d.raises
                    THEN \* the exception leaves run_bridge
                         /\ G' = [G EXCEPT ![id] = [g1 EXCEPT !.ddp_auto = d.ddp_auto]]
                         /\ pc' = "crashed"
                         /\ lastOp' = op
                         /\ UNCHANGED << last_reconnect, mapper, groups,
                                         runtime_groups, sel, sockOpen, histVars >>
                    ELSE IF ~d.emit \/ RateLimited(g2, now)
                    THEN /\ G' = [G EXCEPT ![id] = g2]
                         /\ pc' = pcNext
                         /\ lastOp' = [op EXCEPT !.rate_dropped = d.emit]
                         /\ UNCHANGED << last_reconnect, mapper, groups,
                                         runtime_groups, sel, sockOpen, histVars >>
                    ELSE \E res \in ApplyResults :
                           LET g3 == [g2 EXCEPT !.last_send = now,
                                                !.fail_count = IF res = "ok" THEN 0 ELSE @]
                               cf == CountFailure(g3, res)
                               called == cf.escalate \/ res = "exc"
                               rs0 == [CurRS EXCEPT !.G = [G EXCEPT ![id] = cf.g]]
                           IN  \E connected \in ConnectedInputs(called),
                                  devs \in DeviceInputs(called) :
                                 LET r == IF called
                                          THEN attempt_reconnect(rs0, mode, clock,
                                                                 connected, devs)
                                          ELSE NoReconnect(rs0)
                                 IN  /\ SetRS(r.rs, {})
                                     /\ SetHist(r.stage, clock)
                                     /\ pc' = pcNext
                                     /\ lastOp' = [op EXCEPT
                                          !.applied = TRUE, !.res = res,
                                          !.reconn = r.stage,
                                          !.prev_call = lastCall,
                                          !.prev_performed = lastPerf]
  /\ UNCHANGED << clock, now, mode, cfgVars, events, any_active_recent, wdVars >>

Next ==
  \/ CollectGarbage
  \/ Select
  \/ WindowIdle
  \/ WindowExit
  \/ WindowModeChange
  \/ KeyboardInterrupt
  \/ KeepaliveScan
  \/ KeepaliveReapply
  \/ IdleClearStep
  \/ Watchdog
  \/ ProcessPacket

Spec ==
  Init /\ [][Next]_vars

(***************************************************************************)
(* A longer session of the loop: run_bridge started in group mode with the *)
(* keyboard plugged in, and the operator never asks for another mode.  The *)
(* idle-clear is off in such a session (it is enabled in unique mode).     *)
(***************************************************************************)
InitLong ==
  Init /\ mode = "group" /\ mapper.devices = {"d1"} /\ protocols.g2 = "raw"

SelectLong ==
  SelectUntil(MaxTimeLong)

NextLong ==
  \/ SelectLong
  \/ WindowIdle
  \/ WindowExit
  \/ KeyboardInterrupt
  \/ KeepaliveScan
  \/ KeepaliveReapply
  \/ Watchdog
  \/ ProcessPacket

SpecLong ==
  InitLong /\ [][NextLong]_vars

(***************************************************************************)
(* The start of run_bridge, from the enumeration to the entry of the loop, *)
(* for any mode, any list of Group entries in config.json and any set of   *)
(* devices reported by the SDK.                                            *)
(***************************************************************************)
\* the lists cfg["groups"] may hold: up to MaxCfgGroups distinct entries
CfgChoices ==
  {c \in UNION {[1..n -> CfgNames] : n \in 0..MaxCfgGroups} :
     \A i, j \in 1..Len(c) : i # j => c[i] # c[j]}

\* the sets of devices the SDK may report
StartupDevices ==
  SUBSET (Devices \cup ZeroLedDevices)

InitStart ==
  \E m \in Modes, c \in CfgChoices :
    /\ cfg_groups = c
    /\ update_state = [inflight |-> FALSE, pending |-> << >>, last_notified |-> << >>]
    /\ update_threads = [lock |-> << >>, last_check |-> 0, pending |-> << >>,
                         workers |-> << >>, started |-> 0, notified |-> << >>]
    /\ protocols = [g1 |-> "ddp", g2 |-> "raw"]
    /\ clock = 1
    /\ now = 1
    /\ pc = "start"
    /\ mode = m
    /\ unique_idle_clear_enabled = FALSE
    /\ mapper = [devices |-> {}]
    /\ groups = << >>
    /\ runtime_groups = << >>
    /\ sel = [reg |-> {}]
    /\ G = << >>
    /\ sockOpen = {}
    /\ events = << >>
    /\ todo = << >>
    /\ any_active_recent = FALSE
    /\ last_reconnect = 0
    /\ last_watchdog = 0
    /\ watchdog_fail_count = 0
    /\ lastCall = << >>
    /\ lastPerf = 0
    /\ lastOp = NoOp("init")

\* mapper = build_mapper(cfg, sdk, device_type_mask, args): enumerate raises
\* RuntimeError when no LED is found, and nothing catches it
BuildMapper ==
  /\ pc = "start"
  /\ \E found \in StartupDevices :
       IF Lit(found) = {}
       THEN /\ pc' = "crashed"
            /\ mapper' = mapper
       ELSE /\ pc' = "mapped"
            /\ mapper' = [devices |-> Lit(found)]
  /\ lastOp' = NoOp("build_mapper")
  /\ UNCHANGED << clock, now, mode, cfgVars, last_reconnect, groups,
                  runtime_groups, sel, G, sockOpen, events, todo,
                  any_active_recent, wdVars, histVars >>

\* groups = get_groups_for_mode(mode, ...) in its try: a RuntimeError is
\* printed and run_bridge returns 1
BuildTopology ==
  /\ pc = "mapped"
  /\ LET gg == get_groups_for_mode(mode, mapper.devices)
     IN  IF gg.ok
         THEN /\ groups' = [i \in 1..Len(gg.names) |-> << 0, gg.names[i] >>]
              /\ pc' = "topology"
         ELSE /\ groups' = groups
              /\ pc' = "returned1"
  /\ lastOp' = NoOp("get_groups")
  /\ UNCHANGED << clock, now, mode, cfgVars, last_reconnect, mapper,
                  runtime_groups, sel, G, sockOpen, events, todo,
                  any_active_recent, wdVars, histVars >>

\* sel, runtime_groups = setup_runtime(groups), which nothing guards; then
\* "if not runtime_groups: return 1" and the settings of the loop
SetupRuntime ==
  /\ pc = "topology"
  /\ LET names == [i \in 1..Len(groups) |-> groups[i][2]]
         su == setup_runtime(names, mapper.devices, clock, sockOpen, {})
     IN  IF ~su.ok
         THEN \* the sockets bound so far are referenced by nothing
              /\ pc' = "crashed"
              /\ sockOpen' = su.opened
              /\ UNCHANGED << runtime_groups, sel, G, unique_idle_clear_enabled,
                              last_watchdog >>
         ELSE IF su.ids = << >>
         THEN /\ pc' = "returned1"
              /\ UNCHANGED << runtime_groups, sel, G, sockOpen,
                              unique_idle_clear_enabled, last_watchdog >>
         ELSE /\ pc' = "select"
              /\ runtime_groups' = su.ids
              /\ sel' = [reg |-> su.opened]
              /\ G' = su.objs
              /\ sockOpen' = su.opened
              /\ unique_idle_clear_enabled' = (mode = "unique" /\ unique_idle_clear)
              /\ last_watchdog' = clock
  /\ lastOp' = NoOp("setup_runtime")
  /\ UNCHANGED << clock, now, mode, protocols, cfg_groups, updVars, last_reconnect,
                  mapper, groups, events, todo, any_active_recent,
                  watchdog_fail_count, histVars >>

NextStart ==
  \/ BuildMapper
  \/ BuildTopology
  \/ SetupRuntime

SpecStart ==
  InitStart /\ [][NextStart]_vars

(***************************************************************************)
(* The decoders on their own: one datagram of any shape is decoded into    *)
(* the frame buffer of a Group of one or two LEDs of any protocol, and an  *)
(* idle-clear then blanks the buffer.                                      *)
(***************************************************************************)
\* the bytes after a header: 5, 6, 7, ... up to MaxBody of them
Bodies ==
  {[i \in 1..n |-> i + 4] : n \in 0..MaxBody}

\* byte 0 of a DDP header: version bits 00, 01, 10 and 11, with and without
\* the push bit (1) and the timecode flag (16)
DdpFlags ==
  {0, 1, 16, 64, 65, 80, 81, 128, 193}

\* the offsets and the declared lengths a DDP header may carry
DdpOffsets ==
  {0, 2, 5, 6}

DdpLengths ==
  {0, 1, 3, 4, 100, 258}

\* a 10-byte DDP header followed by `body`
DdpDatagram(flags, offset, length, body) ==
  << flags, 0, 0, 0, 0, 0, 0, offset, length \div 256, length % 256 >> \o body

\* the datagrams handed to the decoders
DecoderInputs ==
  {DdpDatagram(f, o, l, b) : f \in DdpFlags, o \in DdpOffsets, l \in DdpLengths,
                             b \in Bodies}
    \cup {<< p, 1 >> \o b : p \in 1..4, b \in Bodies}
    \cup {<< 4, 1, 0, st >> \o b : st \in 0..1, b \in Bodies}
    \cup Bodies
    \cup {<< 65 >>, << 65, 0, 0, 0, 0, 0, 0, 0, 0 >>}

InitDecode ==
  \E name \in {"g1", "g4"}, p \in {"ddp", "wled", "raw", "auto"}, fill \in {0, 7} :
    /\ cfg_groups = << name >>
    /\ update_state = [inflight |-> FALSE, pending |-> << >>, last_notified |-> << >>]
    /\ update_threads = [lock |-> << >>, last_check |-> 0, pending |-> << >>,
                         workers |-> << >>, started |-> 0, notified |-> << >>]
    /\ protocols = [g1 |-> p, g4 |-> p]
    /\ clock = 1
    /\ now = 1
    /\ pc = "decode"
    /\ mode = "unique"
    /\ unique_idle_clear_enabled = unique_idle_clear
    /\ mapper = [devices |-> Devices]
    /\ groups = << << 0, name >> >>
    /\ runtime_groups = << << 0, name >> >>
    /\ sel = [reg |-> {<< 0, name >>}]
    /\ G = [id \in {<< 0, name >>} |->
              [NewGroup(name, Devices, 1) EXCEPT
                 !.frame_buffer = [i \in 1..Len(@) |-> fill]]]
    /\ sockOpen = {<< 0, name >>}
    /\ events = << >>
    /\ todo = << >>
    /\ any_active_recent = FALSE
    /\ last_reconnect = 0
    /\ last_watchdog = 1
    /\ watchdog_fail_count = 0
    /\ lastCall = << >>
    /\ lastPerf = 0
    /\ lastOp = NoOp("init")

\* the decoding of one datagram by the packet loop; a decoder that raises
\* ends run_bridge
DecodeDatagram ==
  /\ pc = "decode"
  /\ \E id \in DOMAIN G, data \in DecoderInputs :
       LET d == Decode(G[id], data)
       IN  /\ G' = [G EXCEPT ![id].frame_buffer = d.buffer,
                             ![id].ddp_auto = d.ddp_auto]
           /\ pc' = IF d.raises THEN "crashed" ELSE "decoded"
           /\ lastOp' = [NoOp("decode") EXCEPT
                           !.g = id, !.data = data, !.decoder = d.decoder,
                           !.received = TRUE, !.fb_before = G[id].frame_buffer,
                           !.ddp_like = looks_like_ddp(data)]
  /\ UNCHANGED << clock, now, mode, cfgVars, last_reconnect, mapper, groups,
                  runtime_groups, sel, sockOpen, events, todo,
                  any_active_recent, wdVars, histVars >>

\* frame[:] = b"\x00" * len(frame) of the idle-clear
ClearFrame ==
  /\ pc = "decoded"
  /\ \E id \in DOMAIN G :
       /\ G' = [G EXCEPT ![id].frame_buffer =
                           SliceAssign(@, 0, Len(@), Zeros(Len(@)))]
       /\ lastOp' = [NoOp("clear") EXCEPT !.g = id, !.fb_before = G[id].frame_buffer]
  /\ pc' = "cleared"
  /\ UNCHANGED << clock, now, mode, cfgVars, last_reconnect, mapper, groups,
                  runtime_groups, sel, sockOpen, events, todo,
                  any_active_recent, wdVars, histVars >>

NextDecode ==
  \/ DecodeDatagram
  \/ ClearFrame

SpecDecode ==
  InitDecode /\ [][NextDecode]_vars

(***************************************************************************)
(* The pump split: the LEDs of a pump face are paired left/right, the Map  *)
(* Entries of the pairs are appended to the map of a Group (after the      *)
(* entry of a keyboard LED or at its start), and a frame is applied.       *)
(* mapper.positions and mapper.colors are positions_by_device and          *)
(* led_colors_by_device of the pump, G[id].map the map of the Group; an    *)
(* entry is [dev, led, src] with src = << >> for no source index.          *)
(***************************************************************************)
\* the layouts of a pump face: 1 to MaxPumpLeds LEDs on a grid of 3 x 2
PumpPositions ==
  UNION {[1..n -> [x : 0..2, y : 0..1]] : n \in 1..MaxPumpLeds}

RECURSIVE SortPoints(_, _)
\* points.sort(key=lambda p: (p[1], p[2]), reverse=reverse): the sort is
\* stable, equal keys keep the order of the indices
SortPoints(pts, reverse) ==
  IF pts = {} THEN << >>
  ELSE LET Less(p, q) == p.x < q.x \/ (p.x = q.x /\ p.y < q.y)
           Before(p, q) == IF Less(p, q) THEN ~reverse
                           ELSE IF Less(q, p) THEN reverse
                           ELSE p.idx < q.idx
           first == CHOOSE p \in pts : \A q \in pts \ {p} : Before(p, q)
       IN  << first >> \o SortPoints(pts \ {first}, reverse)

\* _build_pump_lr_pairs(positions, start): the pairs [top LED, bottom LED]
_build_pump_lr_pairs(positions, start) ==
  LET points == {[idx |-> i - 1, x |-> positions[i].x, y |-> positions[i].y] :
                   i \in 1..Len(positions)}
      RECURSIVE SumY(_)
      SumY(ps) == IF ps = {} THEN 0
                  ELSE LET p == CHOOSE q \in ps : TRUE IN p.y + SumY(ps \ {p})
      n == Cardinality(points)
      \* p[2] <= cy with cy = sum / n
      top == SortPoints({p \in points : p.y * n <= SumY(points)}, start = "right")
      bottom == SortPoints({p \in points : p.y * n > SumY(points)}, start = "right")
  IN  [i \in 1..Max(Len(top), Len(bottom)) |->
         (IF i <= Len(top) THEN << top[i].idx >> ELSE << >>)
           \o (IF i <= Len(bottom) THEN << bottom[i].idx >> ELSE << >>)]

RECURSIVE PumpEntries(_, _)
\* "for pair in pairs": base_idx = len(map_list); the first LED is appended
\* without source index, the second with source index base_idx
PumpEntries(map_list, pairs) ==
  IF pairs = << >> THEN map_list
  ELSE LET pair == Head(pairs)
           base_idx == Len(map_list)
           one == Append(map_list, [dev |-> "aio", led |-> pair[1], src |-> << >>])
           two == IF Len(pair) > 1
                  THEN Append(one, [dev |-> "aio", led |-> pair[2], src |-> << base_idx >>])
                  ELSE one
       IN  PumpEntries(two, Tail(pairs))

RECURSIVE ApplyFrameWalk(_, _, _, _)
\* "for entry in map_list" of apply_frame_map, with the identity lut: idx is
\* the byte offset of the next entry without source index
ApplyFrameWalk(map_list, idx, frame_bytes, colors) ==
  IF map_list = << >> THEN colors
  ELSE LET entry == Head(map_list)
           offset == IF entry.src = << >> THEN idx ELSE entry.src[1] * 3
           rgb == IF offset + 2 >= Len(frame_bytes) THEN << 0, 0, 0 >>
                  ELSE << At(frame_bytes, offset), At(frame_bytes, offset + 1),
                          At(frame_bytes, offset + 2) >>
       IN  ApplyFrameWalk(Tail(map_list),
                          IF entry.src = << >> THEN idx + 3 ELSE idx,
                          frame_bytes,
                          [colors EXCEPT ![<< entry.dev, entry.led >>] = rgb])

InitPump ==
  \E positions \in PumpPositions,
     before \in {<< >>, << [dev |-> "kbd", led |-> 0, src |-> << >>] >>} :
    /\ cfg_groups = << >>
    /\ update_state = [inflight |-> FALSE, pending |-> << >>, last_notified |-> << >>]
    /\ update_threads = [lock |-> << >>, last_check |-> 0, pending |-> << >>,
                         workers |-> << >>, started |-> 0, notified |-> << >>]
    /\ protocols = [g1 |-> "ddp", g2 |-> "raw"]
    /\ clock = 1
    /\ now = 1
    /\ pc = "pump_build"
    /\ mode = "fusion"
    /\ unique_idle_clear_enabled = FALSE
    /\ mapper = [devices |-> {"aio", "kbd"},
                 positions |-> positions,
                 colors |-> [k \in {<< "kbd", 0 >>}
                               \cup {<< "aio", i - 1 >> : i \in 1..Len(positions)}
                             |-> << 0, 0, 0 >>]]
    /\ groups = << << 0, "fusion" >> >>
    /\ runtime_groups = << >>
    /\ sel = [reg |-> {}]
    /\ G = [id \in {<< 0, "fusion" >>} |->
              [name |-> "fusion", map |-> before, led_count |-> Len(before),
               frame_buffer |-> << >>]]
    /\ sockOpen = {}
    /\ events = << >>
    /\ todo = << >>
    /\ any_active_recent = FALSE
    /\ last_reconnect = 0
    /\ last_watchdog = 0
    /\ watchdog_fail_count = 0
    /\ lastCall = << >>
    /\ lastPerf = 0
    /\ lastOp = NoOp("init")

\* the pump split of build_groups and of add_aio_pump, then "led_count":
\* len(map_list) and the frame buffer, here holding a frame of which all
\* bytes differ
BuildPumpMap ==
  /\ pc = "pump_build"
  /\ \E id \in DOMAIN G, start \in {"left", "right"} :
       LET pairs == _build_pump_lr_pairs(mapper.positions, start)
           map_list == PumpEntries(G[id].map, pairs)
       IN  G' = [G EXCEPT ![id].map = map_list,
                          ![id].led_count = Len(map_list),
                          ![id].frame_buffer = [i \in 1..(3 * Len(map_list)) |-> i]]
  /\ pc' = "pump_built"
  /\ lastOp' = NoOp("pump_map")
  /\ UNCHANGED << clock, now, mode, cfgVars, last_reconnect, mapper, groups,
                  runtime_groups, sel, sockOpen, events, todo,
                  any_active_recent, wdVars, histVars >>

\* mapper.apply_frame_map(g["map"], g["device_ids"], frame_buffer)
ApplyPumpFrame ==
  /\ pc = "pump_built"
  /\ \E id \in DOMAIN G :
       /\ mapper' = [mapper EXCEPT !.colors =
                       ApplyFrameWalk(G[id].map, 0, G[id].frame_buffer, @)]
       /\ lastOp' = [NoOp("pump_apply") EXCEPT !.g = id, !.applied = TRUE]
  /\ pc' = "pump_applied"
  /\ UNCHANGED << clock, now, mode, cfgVars, last_reconnect, groups,
                  runtime_groups, sel, G, sockOpen, events, todo,
                  any_active_recent, wdVars, histVars >>

NextPump ==
  \/ BuildPumpMap
  \/ ApplyPumpFrame

SpecPump ==
  InitPump /\ [][NextPump]_vars

(***************************************************************************)
(* Device orders: apply_fan_ring with the sequential layout sets the order *)
(* of a device with fans, and the map of a Group is built from             *)
(* get_device_order.  mapper.order is order_by_device of the device        *)
(* (<< >> when it has none), mapper.colors its LED colours; None is        *)
(* written << >>.                                                          *)
(***************************************************************************)
\* list(range(a, b))
RangeSeq(a, b) ==
  [i \in 1..Max(0, b - a) |-> a + i - 1]

RECURSIVE FilterSeq(_, _)
\* [i for i in s if i in S]
FilterSeq(s, S) ==
  IF s = << >> THEN << >>
  ELSE (IF Head(s) \in S THEN << Head(s) >> ELSE << >>) \o FilterSeq(Tail(s), S)

\* _normalize_group_order(order, count), for a list of integers
_normalize_group_order(order, count) ==
  IF order = << >> THEN << >>
  ELSE LET zero_based == IF \A k \in 1..Len(order) : order[k] >= 1
                         THEN [k \in 1..Len(order) |-> order[k] - 1]
                         ELSE order
           order_list == FilterSeq(zero_based, 0..(count - 1))
       IN  IF order_list = << >> THEN << >>
           ELSE IF Len(order_list) < count
           THEN order_list \o FilterSeq(RangeSeq(0, count),
                                        (0..(count - 1)) \ SeqToSet(order_list))
           ELSE order_list

RECURSIVE Concat(_)
\* the lists of a list, one after the other
Concat(lists) ==
  IF lists = << >> THEN << >> ELSE Head(lists) \o Concat(Tail(lists))

\* the order apply_fan_ring gives a device of `total` LEDs with the
\* sequential layout, index ring order and no lock_to_first; fan_count is
\* << >> or << k >>
apply_fan_ring(total, leds_per_fan, fan_count, group_order) ==
  LET k0 == IF fan_count = << >>
            THEN (IF total % leds_per_fan = 0 THEN total \div leds_per_fan ELSE 1)
            ELSE fan_count[1]
      k == Max(1, k0)
      fans == [f \in 1..k |->
                   RangeSeq((f - 1) * leds_per_fan,
                            Min(total, (f - 1) * leds_per_fan + leds_per_fan))]
      order_idx == _normalize_group_order(group_order, Len(fans))
      ordered == IF order_idx # << >>
                 THEN [j \in 1..Len(order_idx) |-> fans[order_idx[j] + 1]]
                 ELSE fans
  IN  Concat(ordered)

\* LedMapper.get_device_order, for a device of n LEDs
get_device_order(order, n) ==
  IF order # << >> /\ Len(order) = n THEN order ELSE RangeSeq(0, n)

\* the lists cfg may give as group order
GroupOrders ==
  UNION {[1..n -> -1..3] : n \in 0..MaxGroupOrder}

InitOrder ==
  \E n \in 1..MaxFanLeds :
    /\ cfg_groups = << >>
    /\ update_state = [inflight |-> FALSE, pending |-> << >>, last_notified |-> << >>]
    /\ update_threads = [lock |-> << >>, last_check |-> 0, pending |-> << >>,
                         workers |-> << >>, started |-> 0, notified |-> << >>]
    /\ protocols = [g1 |-> "ddp", g2 |-> "raw"]
    /\ clock = 1
    /\ now = 1
    /\ pc = "order_start"
    /\ mode = "group"
    /\ unique_idle_clear_enabled = FALSE
    /\ mapper = [devices |-> {"fans"},
                 order |-> << >>,
                 colors |-> [k \in {<< "fans", i >> : i \in 0..(n - 1)}
                             |-> << 0, 0, 0 >>]]
    /\ groups = << << 0, "groupe" >> >>
    /\ runtime_groups = << >>
    /\ sel = [reg |-> {}]
    /\ G = [id \in {<< 0, "groupe" >>} |->
              [name |-> "groupe", map |-> << >>, led_count |-> 0,
               frame_buffer |-> << >>]]
    /\ sockOpen = {}
    /\ events = << >>
    /\ todo = << >>
    /\ any_active_recent = FALSE
    /\ last_reconnect = 0
    /\ last_watchdog = 0
    /\ watchdog_fail_count = 0
    /\ lastCall = << >>
    /\ lastPerf = 0
    /\ lastOp = NoOp("init")

\* build_mapper calls mapper.apply_fan_ring(...) with the settings of cfg
ApplyFanRing ==
  /\ pc = "order_start"
  /\ \E leds_per_fan \in 1..2, fan_count \in {<< >>, << 1 >>, << 2 >>, << 3 >>},
        group_order \in GroupOrders :
       LET total == Cardinality(DOMAIN mapper.colors)
           k == Max(1, IF fan_count = << >>
                       THEN (IF total % leds_per_fan = 0
                             THEN total \div leds_per_fan ELSE 1)
                       ELSE fan_count[1])
       IN  /\ mapper' = [mapper EXCEPT !.order =
                           apply_fan_ring(total, leds_per_fan, fan_count, group_order)]
           /\ lastOp' = [NoOp("fan_ring") EXCEPT
                           !.args = << group_order, k >>,
                           !.result = _normalize_group_order(group_order, k)]
  /\ pc' = "ordered"
  /\ UNCHANGED << clock, now, mode, cfgVars, last_reconnect, groups,
                  runtime_groups, sel, G, sockOpen, events, todo,
                  any_active_recent, wdVars, histVars >>

\* build_group_all: the map of the Group follows get_device_order
BuildOrderMap ==
  /\ pc = "ordered"
  /\ \E id \in DOMAIN G :
       LET order == get_device_order(mapper.order, Cardinality(DOMAIN mapper.colors))
       IN  G' = [G EXCEPT ![id].map = [j \in 1..Len(order) |->
                                         [dev |-> "fans", led |-> order[j], src |-> << >>]],
                          ![id].led_count = Len(order),
                          ![id].frame_buffer = Zeros(3 * Len(order))]
  /\ pc' = "order_built"
  /\ lastOp' = NoOp("order_map")
  /\ UNCHANGED << clock, now, mode, cfgVars, last_reconnect, mapper, groups,
                  runtime_groups, sel, sockOpen, events, todo,
                  any_active_recent, wdVars, histVars >>

NextOrder ==
  \/ ApplyFanRing
  \/ BuildOrderMap

SpecOrder ==
  InitOrder /\ [][NextOrder]_vars

(***************************************************************************)
(* The fusion topology: build_group_fusion on a keyboard "kbd", a cooler   *)
(* "aio" and a fan controller "fans" (no mouse, mousemat or RAM), without  *)
(* pump split.  The devices have their identity order.                     *)
(***************************************************************************)
\* the largest LED count of a device of the fusion topology, and the largest
\* fan size and insertion rank drawn
MaxDevLeds == 2

\* the map of the fusion Group.  leds[d] is the LED count of device d,
\* pump_leds the size of the first cluster _build_aio_cluster_orders finds
\* on the cooler, cooler_is_fan tells that cfg["fan_device_types"] holds
\* the type of the cooler.
build_group_fusion(devices, leds, pump_leds, cooler_is_fan, leds_per_fan, insert_after) ==
  LET \* add_device(device_id, label, indices, dedupe=...)
      RECURSIVE add_device(_, _, _, _)
      add_device(st, dev, indices, dedupe) ==
        IF indices = << >> THEN st
        ELSE IF dedupe /\ << dev, Head(indices) >> \in st.used
        THEN add_device(st, dev, Tail(indices), dedupe)
        ELSE add_device([map |-> Append(st.map, [dev |-> dev, led |-> Head(indices),
                                                  src |-> << >>]),
                         used |-> st.used \cup {<< dev, Head(indices) >>}],
                        dev, Tail(indices), dedupe)
      Order(dev) == RangeSeq(0, leds[dev])
      \* 1) the keyboard
      st1 == IF "kbd" \in devices
             THEN add_device([map |-> << >>, used |-> {}], "kbd", Order("kbd"), FALSE)
             ELSE [map |-> << >>, used |-> {}]
      \* 4) aio_pump_orders and aio_fan_orders
      has_aio == "aio" \in devices
      pump == IF has_aio THEN RangeSeq(0, Min(pump_leds, leds["aio"])) ELSE << >>
      rest == IF has_aio THEN RangeSeq(Min(pump_leds, leds["aio"]), leds["aio"])
              ELSE << >>
      add_aio_pump(st) == IF has_aio THEN add_device(st, "aio", pump, FALSE) ELSE st
      \* 5) case_fan_devices, in the order of mapper.devices, and their segments
      case_devs == (IF has_aio /\ cooler_is_fan THEN << "aio" >> ELSE << >>)
                     \o (IF "fans" \in devices THEN << "fans" >> ELSE << >>)
      RECURSIVE Chunks(_, _)
      Chunks(dev, order) ==
        IF order = << >> THEN << >>
        ELSE << [dev |-> dev, seg |-> SubSeq(order, 1, leds_per_fan)] >>
               \o Chunks(dev, SubSeq(order, leds_per_fan + 1, Len(order)))
      Segments(dev) ==
        IF leds_per_fan # 0 /\ Len(Order(dev)) >= leds_per_fan
             /\ Len(Order(dev)) % leds_per_fan = 0
        THEN Chunks(dev, Order(dev))
        ELSE << [dev |-> dev, seg |-> Order(dev)] >>
      case_segments == Concat([i \in 1..Len(case_devs) |-> Segments(case_devs[i])])
      RECURSIVE AddSegments(_, _, _, _)
      AddSegments(segs, st, count, inserted) ==
        IF segs = << >> THEN (IF inserted THEN st ELSE add_aio_pump(st))
        ELSE LET ins == count = insert_after /\ ~inserted
                 st_a == IF ins THEN add_aio_pump(st) ELSE st
             IN  AddSegments(Tail(segs),
                             add_device(st_a, Head(segs).dev, Head(segs).seg, FALSE),
                             count + 1, inserted \/ ins)
      st5 == AddSegments(case_segments, st1, 0, FALSE)
      \* 7) the fans of the cooler, with dedupe=True
      st7 == IF rest # << >> THEN add_device(st5, "aio", rest, TRUE) ELSE st5
  IN  st7.map

InitFusion ==
  \E devs \in (SUBSET {"kbd", "aio", "fans"}) \ {{}},
     leds \in [{"kbd", "aio", "fans"} -> 1..MaxDevLeds] :
    /\ cfg_groups = << >>
    /\ update_state = [inflight |-> FALSE, pending |-> << >>, last_notified |-> << >>]
    /\ update_threads = [lock |-> << >>, last_check |-> 0, pending |-> << >>,
                         workers |-> << >>, started |-> 0, notified |-> << >>]
    /\ protocols = [g1 |-> "ddp", g2 |-> "raw"]
    /\ clock = 1
    /\ now = 1
    /\ pc = "fusion_start"
    /\ mode = "fusion"
    /\ unique_idle_clear_enabled = FALSE
    /\ mapper = [devices |-> devs,
                 colors |-> [k \in UNION {{<< d, i >> : i \in 0..(leds[d] - 1)} : d \in devs}
                             |-> << 0, 0, 0 >>]]
    /\ groups = << >>
    /\ runtime_groups = << >>
    /\ sel = [reg |-> {}]
    /\ G = << >>
    /\ sockOpen = {}
    /\ events = << >>
    /\ todo = << >>
    /\ any_active_recent = FALSE
    /\ last_reconnect = 0
    /\ last_watchdog = 0
    /\ watchdog_fail_count = 0
    /\ lastCall = << >>
    /\ lastPerf = 0
    /\ lastOp = NoOp("init")

\* groups = build_group_fusion(cfg, mapper, ...): one Group named "fusion"
BuildFusionMap ==
  /\ pc = "fusion_start"
  /\ \E pump_leds \in 1..MaxDevLeds, cooler_is_fan \in BOOLEAN,
        leds_per_fan \in 1..MaxDevLeds, insert_after \in 0..MaxDevLeds :
       LET leds == [d \in mapper.devices |->
                      Cardinality({k \in DOMAIN mapper.colors : k[1] = d})]
           map_list == build_group_fusion(mapper.devices, leds, pump_leds,
                                          cooler_is_fan, leds_per_fan, insert_after)
       IN  /\ groups' = << << 0, "fusion" >> >>
           /\ G' = [id \in {<< 0, "fusion" >>} |->
                      [name |-> "fusion", map |-> map_list,
                       led_count |-> Len(map_list), frame_buffer |-> << >>]]
  /\ pc' = "fusion_built"
  /\ lastOp' = NoOp("fusion_map")
  /\ UNCHANGED << clock, now, mode, cfgVars, last_reconnect, mapper,
                  runtime_groups, sel, sockOpen, events, todo,
                  any_active_recent, wdVars, histVars >>

SpecFusion ==
  InitFusion /\ [][BuildFusionMap]_vars

(***************************************************************************)
(* The serpentine order of a device: _compute_serpentine_order without     *)
(* flips and with the automatic row tolerance.  A point is a record        *)
(* [idx, x, y]; sorts are stable, as Python's.                             *)
(***************************************************************************)
\* the largest number of LEDs of the device
MaxSerpLeds == 3

\* sorted(pts, key=...), for the keys the two functions use
RECURSIVE SortedBy(_, _)
SortedBy(pts, key) ==
  IF pts = << >> THEN << >>
  ELSE LET Less(p, q) ==
             CASE key = "y" -> p.y < q.y
               [] key = "yx" -> p.y < q.y \/ (p.y = q.y /\ p.x < q.x)
               [] key = "-yx" -> p.y > q.y \/ (p.y = q.y /\ p.x < q.x)
               [] key = "x" -> p.x < q.x
               [] key = "x reversed" -> p.x > q.x
               [] key = "center" -> p.center < q.center
           RECURSIVE Insert(_, _)
           Insert(sorted, p) ==
             IF sorted = << >> THEN << p >>
             ELSE IF Less(p, Head(sorted)) THEN << p >> \o sorted
             ELSE << Head(sorted) >> \o Insert(Tail(sorted), p)
       IN  Insert(SortedBy(SubSeq(pts, 1, Len(pts) - 1), key), pts[Len(pts)])

\* the rows of _cluster_rows(points, rows_count).  The centers are kept as
\* multiples of 1 / (Len(points))!, which holds every mean exactly.
_cluster_rows(points, rows_count) ==
  LET n == Len(points)
      RECURSIVE Fact(_)
      Fact(m) == IF m <= 1 THEN 1 ELSE m * Fact(m - 1)
      S == Fact(n)
      ys_sorted == SortedBy(points, "y")
      Dist(a, b) == IF a >= b THEN a - b ELSE b - a
      RECURSIVE Sum(_)
      Sum(c) == IF c = << >> THEN 0 ELSE Head(c).y + Sum(Tail(c))
      RECURSIVE MaxOf(_)
      MaxOf(ds) == IF Len(ds) = 1 THEN ds[1] ELSE Max(Head(ds), MaxOf(Tail(ds)))
      centers0 == [i \in 1..rows_count |->
                     S * ys_sorted[((i - 1) * (n - 1)) \div (rows_count - 1) + 1].y]
      Nearest(p, centers) ==
        CHOOSE j \in 1..rows_count :
          \A h \in 1..rows_count :
            \/ Dist(S * p.y, centers[j]) < Dist(S * p.y, centers[h])
            \/ Dist(S * p.y, centers[j]) = Dist(S * p.y, centers[h]) /\ j <= h
      Clusters(centers) ==
        [j \in 1..rows_count |-> SelectSeq(points, LAMBDA p : Nearest(p, centers) = j)]
      NewCenters(clusters, centers) ==
        [j \in 1..rows_count |->
           IF clusters[j] # << >>
           THEN (S * Sum(clusters[j])) \div Len(clusters[j])
           ELSE centers[j]]
      Delta(new_centers, centers) ==
        MaxOf([j \in 1..rows_count |-> Dist(new_centers[j], centers[j])])
      Sorted(new_centers, clusters) ==
        LET srt == SortedBy([j \in 1..rows_count |->
                               [center |-> new_centers[j], c |-> clusters[j]]], "center")
        IN  [j \in 1..rows_count |-> srt[j].c]
      \* the for loop, from its iteration iter on
      RECURSIVE Loop(_, _)
      Loop(centers, iter) ==
        CHOOSE rows \in
          UNION {{IF Delta(new_centers, centers) = 0 \/ iter = 20
                  THEN Sorted(new_centers, clusters)
                  ELSE Loop(new_centers, iter + 1) :
                    new_centers \in {NewCenters(clusters, centers)}} :
                   clusters \in {Clusters(centers)}} : TRUE
  IN  IF n = 0 THEN << >>
      ELSE IF rows_count >= n THEN [i \in 1..n |-> << ys_sorted[i] >>]
      ELSE CHOOSE rows \in {Loop(c, 1) : c \in {centers0}} : TRUE

\* _compute_serpentine_order(positions, None, first_dir, row_order,
\* rows_count, False, False, False, mode); a rows_count of None takes the
\* path of rows_count = 0.  The result holds the rows next to the order.
_compute_serpentine_order(positions, first_dir, row_order, rows_count, order_mode) ==
  LET points == [i \in 1..Len(positions) |->
                   [idx |-> i - 1, x |-> positions[i].x, y |-> positions[i].y]]
      clustered == IF rows_count > 1
                   THEN _cluster_rows(points, rows_count) ELSE << >>
      ys == {points[i].y : i \in 1..Len(points)}
      diffs == {d \in {a - b : a, b \in ys} : d > 0}
      \* tol = min_diff / 2, or 1.0; kept doubled
      tol2 == IF diffs = {} THEN 2 ELSE CHOOSE d \in diffs : \A e \in diffs : d <= e
      sorted == SortedBy(points, IF row_order = "bottom" THEN "-yx" ELSE "yx")
      RECURSIVE Sweep(_, _, _)
      Sweep(pts, current, current_y) ==
        IF pts = << >> THEN << current >>
        ELSE LET d == IF Head(pts).y >= current_y THEN Head(pts).y - current_y
                      ELSE current_y - Head(pts).y
             IN  IF 2 * d <= tol2
                 THEN Sweep(Tail(pts), Append(current, Head(pts)), current_y)
                 ELSE << current >> \o Sweep(Tail(pts), << Head(pts) >>, Head(pts).y)
      rows == IF clustered # << >> THEN clustered
              ELSE Sweep(Tail(sorted), << Head(sorted) >>, Head(sorted).y)
      Reverse(idx_row) ==
        IF order_mode = "linear" THEN first_dir = "right"
        ELSE IF first_dir = "right" THEN idx_row % 2 = 0
        ELSE idx_row % 2 = 1
      Idx(row) == [i \in 1..Len(row) |-> row[i].idx]
      order == Concat([r \in 1..Len(rows) |->
                         Idx(SortedBy(rows[r], IF Reverse(r - 1) THEN "x reversed"
                                               ELSE "x"))])
  IN  IF positions = << >> THEN << >> ELSE [rows |-> rows, order |-> order]

InitSerp ==
  \E n \in 1..MaxSerpLeds : \E positions \in [1..n -> [x : {0, 1}, y : {0, 1, 3}]] :
    /\ cfg_groups = << >>
    /\ update_state = [inflight |-> FALSE, pending |-> << >>, last_notified |-> << >>]
    /\ update_threads = [lock |-> << >>, last_check |-> 0, pending |-> << >>,
                         workers |-> << >>, started |-> 0, notified |-> << >>]
    /\ protocols = [g1 |-> "ddp", g2 |-> "raw"]
    /\ clock = 1
    /\ now = 1
    /\ pc = "serp_start"
    /\ mode = "unique"
    /\ unique_idle_clear_enabled = FALSE
    /\ mapper = [devices |-> {"d1"},
                 colors |-> [k \in {<< "d1", i >> : i \in 0..(n - 1)} |-> << 0, 0, 0 >>],
                 positions |-> positions]
    /\ groups = << >>
    /\ runtime_groups = << >>
    /\ sel = [reg |-> {}]
    /\ G = << >>
    /\ sockOpen = {}
    /\ events = << >>
    /\ todo = << >>
    /\ any_active_recent = FALSE
    /\ last_reconnect = 0
    /\ last_watchdog = 0
    /\ watchdog_fail_count = 0
    /\ lastCall = << >>
    /\ lastPerf = 0
    /\ lastOp = NoOp("init")

\* apply_serpentine: the order of the device becomes the computed one
ComputeSerpentine ==
  /\ pc = "serp_start"
  /\ \E first_dir \in {"left", "right"}, row_order \in {"top", "bottom"},
        rows_count \in 0..MaxSerpLeds, smode \in {"serpentine", "linear"} :
       LET res == _compute_serpentine_order(mapper.positions, first_dir, row_order,
                                            rows_count, smode)
       IN  /\ lastOp' = [NoOp("serpentine") EXCEPT
                           !.args = [first_dir |-> first_dir, row_order |-> row_order,
                                     rows_count |-> rows_count, mode |-> smode],
                           !.result = res]
           /\ mapper' = [devices |-> mapper.devices, colors |-> mapper.colors,
                         positions |-> mapper.positions, order |-> res.order]
  /\ pc' = "serp_done"
  /\ UNCHANGED << clock, now, mode, cfgVars, last_reconnect, groups, G,
                  runtime_groups, sel, sockOpen, events, todo,
                  any_active_recent, wdVars, histVars >>

SpecSerp ==
  InitSerp /\ [][ComputeSerpentine]_vars

(***************************************************************************)
(* The version check: the loop thread runs the update block of every       *)
(* iteration, the worker threads run worker(); each statement that takes   *)
(* update_lock is two steps, the acquisition and the guarded block with    *)
(* its release.  None is << >>, a release info is << version >>, a thread  *)
(* is << "loop", 0 >> or << "worker", id >>.                               *)
(***************************************************************************)
\* the last tick of the version check
MaxUpdTime == 2

\* cfg["update_check_interval_seconds"], in ticks
update_interval == 1

\* the releases _fetch_latest_release may report as newer than APP_VERSION
Versions ==
  {"v1", "v2"}

\* a variant of start_update_check that does not test "inflight"
start_update_check_unguarded(state) ==
  [state |-> [state EXCEPT !.inflight = TRUE], spawn |-> TRUE]

\* the guarded block of start_update_check: the new update_state and
\* whether a worker thread is started
start_update_check(state) ==
  IF state.inflight THEN [state |-> state, spawn |-> FALSE]
  ELSE [state |-> [state EXCEPT !.inflight = TRUE], spawn |-> TRUE]

InitUpdate ==
  /\ cfg_groups = << >>
  /\ update_state = [inflight |-> FALSE, pending |-> << >>, last_notified |-> << >>]
  /\ update_threads = [lock |-> << >>, last_check |-> 0 - update_interval,
                       pending |-> << >>, workers |-> << >>, started |-> 0,
                       notified |-> << >>]
  /\ protocols = [g1 |-> "ddp", g2 |-> "raw"]
  /\ clock = 0
  /\ now = 0
  /\ pc = "upd_begin"
  /\ mode = "group"
  /\ unique_idle_clear_enabled = FALSE
  /\ mapper = [devices |-> {"d1"}]
  /\ groups = << >>
  /\ runtime_groups = << >>
  /\ sel = [reg |-> {}]
  /\ G = << >>
  /\ sockOpen = {}
  /\ events = << >>
  /\ todo = << >>
  /\ any_active_recent = FALSE
  /\ last_reconnect = 0
  /\ last_watchdog = 0
  /\ watchdog_fail_count = 0
  /\ lastCall = << >>
  /\ lastPerf = 0
  /\ lastOp = NoOp("init")

\* a step of the loop thread in the update block of an iteration
UpdateLoop ==
  /\ \/ /\ pc = "upd_begin"
        /\ \E t \in {now, now + 1} :
             /\ t <= MaxUpdTime
             /\ now' = t
             /\ clock' = t
             /\ IF (t - update_threads.last_check) >= update_interval
                THEN /\ update_threads' = [update_threads EXCEPT !.last_check = t]
                     /\ pc' = "upd_start_wait"
                ELSE /\ UNCHANGED update_threads
                     /\ pc' = "upd_poll_wait"
        /\ UNCHANGED update_state
     \/ /\ pc \in {"upd_start_wait", "upd_poll_wait"}
        /\ update_threads.lock = << >>
        /\ update_threads' = [update_threads EXCEPT !.lock = << "loop", 0 >>]
        /\ pc' = IF pc = "upd_start_wait" THEN "upd_start" ELSE "upd_poll"
        /\ UNCHANGED << clock, now, update_state >>
     \/ /\ pc = "upd_start"
        /\ LET r == start_update_check(update_state)
               id == update_threads.started + 1
           IN  /\ update_state' = r.state
               /\ update_threads' =
                    IF r.spawn
                    THEN [update_threads EXCEPT
                            !.lock = << >>,
                            !.started = id,
                            !.workers = Append(@, [id |-> id, pc |-> "fetch",
                                                   info |-> << >>])]
                    ELSE [update_threads EXCEPT !.lock = << >>]
        /\ pc' = "upd_poll_wait"
        /\ UNCHANGED << clock, now >>
     \/ /\ pc = "upd_poll"
        /\ update_threads' = [update_threads EXCEPT
                                !.lock = << >>,
                                !.pending = update_state.pending]
        /\ update_state' = [update_state EXCEPT !.pending = << >>]
        /\ pc' = "upd_notify"
        /\ UNCHANGED << clock, now >>
     \/ /\ pc = "upd_notify"
        /\ LET pending == update_threads.pending
           IN  IF pending # << >> /\ update_state.last_notified # pending
               THEN /\ update_state' = [update_state EXCEPT !.last_notified = pending]
                    /\ update_threads' = [update_threads EXCEPT
                                            !.notified = Append(@, pending[1])]
               ELSE UNCHANGED << update_state, update_threads >>
        /\ pc' = "upd_begin"
        /\ UNCHANGED << clock, now >>
  /\ lastOp' = NoOp("update_loop")
  /\ UNCHANGED << mode, protocols, unique_idle_clear_enabled, cfg_groups, rsVars,
                  events, todo, any_active_recent, wdVars, histVars >>

\* a step of a worker thread
Worker ==
  /\ \E i \in 1..Len(update_threads.workers) :
       LET w == update_threads.workers[i]
           me == << "worker", w.id >>
           Rest == [j \in 1..(Len(update_threads.workers) - 1) |->
                      update_threads.workers[IF j < i THEN j ELSE j + 1]]
       IN  \/ /\ w.pc = "fetch"
              /\ \E latest \in Versions \cup {"none"} :
                   update_threads' =
                     [update_threads EXCEPT
                        !.workers[i] =
                          IF latest = "none"
                          THEN [w EXCEPT !.pc = "final_wait"]
                          ELSE [w EXCEPT !.pc = "store_wait", !.info = << latest >>]]
              /\ UNCHANGED update_state
           \/ /\ w.pc \in {"store_wait", "final_wait"}
              /\ update_threads.lock = << >>
              /\ update_threads' =
                   [update_threads EXCEPT
                      !.lock = me,
                      !.workers[i].pc = IF w.pc = "store_wait" THEN "store" ELSE "final"]
              /\ UNCHANGED update_state
           \/ /\ w.pc = "store"
              /\ update_state' = [update_state EXCEPT !.pending = w.info]
              /\ update_threads' = [update_threads EXCEPT
                                      !.lock = << >>,
                                      !.workers[i].pc = "final_wait"]
           \/ /\ w.pc = "final"
              /\ update_state' = [update_state EXCEPT !.inflight = FALSE]
              /\ update_threads' = [update_threads EXCEPT
                                      !.lock = << >>, !.workers = Rest]
  /\ lastOp' = NoOp("update_worker")
  /\ UNCHANGED << clock, now, pc, mode, protocols, unique_idle_clear_enabled,
                  cfg_groups, rsVars, events, todo, any_active_recent, wdVars,
                  histVars >>

NextUpdate ==
  \/ UpdateLoop
  \/ Worker

SpecUpdate ==
  InitUpdate /\ [][NextUpdate]_vars

(***************************************************************************)
(* Properties.                                                             *)
(***************************************************************************)
\* the Group has been without a packet for its idle-clear delay
IdleSince(g, t) ==
  /\ ~g.idle_clear_disabled
  /\ g.last_packet_ts # 0
  /\ t - g.last_packet_ts >= ClearAfter(g)

\* C1: idle-clear liveness.  Once the loop is past the idle-clear block of
\* an iteration, every running Group whose idle-clear is enabled, that has
\* received a packet and then none for its idle-clear delay, has had its
\* buffer zeroed and handed to apply_frame_map since that last packet.
C1_IdleClearAttempted ==
  (pc \in {"watchdog", "packets"} /\ unique_idle_clear_enabled)
    => \A id \in SeqToSet(runtime_groups) :
         IdleSince(G[id], now) => G[id].idle_called

C3_FirstCallPerforms ==
  (lastOp.reconn # "none"
     /\ (lastOp.prev_call = << >>
           \/ clock - lastOp.prev_call[1] >= reconnect_cooldown))
    => lastOp.reconn # "cooldown"

\* C4: per-Group rate limiting.  A packet is dropped by the rate limit only
\* when a frame was applied for its Group before: never the first packet a
\* Group receives, which no apply_frame_map call for the Group precedes.
C4_DropOnlyAfterApply ==
  (lastOp.op = "packet" /\ lastOp.rate_dropped) => ~lastOp.no_packet_before

\* C5: no datagram ends the loop.  After a packet was handled, whatever its
\* content and the protocol of its Group, run_bridge is still in its loop.
C5_PacketNeverEndsLoop ==
  (lastOp.op = "packet" /\ lastOp.received) => Running

\* a datagram the decoder cannot decode: a raw stream whose length is not a
\* multiple of 3, a datagram of the notification family whose leading byte
\* is not 1-4 and whose length is not a multiple of 3, or a sub-protocol
\* datagram that is nothing but its two header bytes
Undecodable(decoder, data) ==
  \/ decoder = "raw" /\ Len(data) % 3 # 0
  \/ /\ decoder = "wled"
     /\ Len(data) >= 1
     /\ Len(data) % 3 # 0
     /\ data[1] \notin 1..4
  \/ /\ decoder = "wled"
     /\ Len(data) = 2
     /\ data[1] \in 1..4

\* C6: an undecodable datagram is dropped.  The Group's frame buffer is
\* unchanged, apply_frame_map is not called for the packet and no reconnect
\* attempt is made.
C6_UndecodableDropped ==
  (lastOp.op = "packet" /\ lastOp.received
     /\ Undecodable(lastOp.decoder, lastOp.data))
    => /\ ~lastOp.applied
       /\ lastOp.reconn = "none"
       /\ lastOp.g \in DOMAIN G
       /\ G[lastOp.g].frame_buffer = lastOp.fb_before

\* bit 0 of byte 0 of a non-empty datagram
PushBit(data) ==
  data[1] % 2

\* C7: DDP push semantics.  A datagram routed to the DDP decoder whose push
\* bit is 0 is written into the frame buffer, causes no apply_frame_map call
\* and leaves the Group's rate-limit timer (last_send) as it was; a datagram
\* of the DDP decoder that is applied has push = 1.
C7_PushSemantics ==
  (lastOp.op = "packet" /\ lastOp.decoder = "ddp" /\ lastOp.data # << >>)
    => /\ PushBit(lastOp.data) = 0
            => /\ ~lastOp.applied
               /\ lastOp.reconn = "none"
               /\ G[lastOp.g].last_send = lastOp.last_send_before
               /\ G[lastOp.g].frame_buffer
                    = parse_ddp_buffer(lastOp.data, lastOp.fb_before)
       /\ lastOp.applied => PushBit(lastOp.data) = 1

\* a push = 0 datagram has changed the frame buffer and nothing was applied
C7_Witness ==
  /\ lastOp.op = "packet"
  /\ lastOp.decoder = "ddp"
  /\ lastOp.data # << >>
  /\ PushBit(lastOp.data) = 0
  /\ ~lastOp.applied
  /\ G[lastOp.g].frame_buffer # lastOp.fb_before

\* C8: every exit path releases the sockets.  When run_bridge has returned,
\* by an interrupt or by an exit request of the mode window, every socket
\* of the running Groups is unregistered from the selector and closed.
C8_ExitClosesSockets ==
  pc = "returned"
    => SeqToSet(runtime_groups) \cap (sockOpen \cup sel.reg) = {}

\* C9: a reconnect attempt that passes the cooldown, finds the SDK connected
\* and whose enumeration and topology build succeed completes: it never ends
\* in setup_runtime failing to bind the rebuilt Groups.
C9_ReconnectCompletes ==
  lastOp.reconn # "setupfail"

\* C10: a failed rebuild leaves the running state as it was.  A step whose
\* reconnect attempt ends in a failed rebuild keeps mapper, groups, selector
\* and runtime_groups, closes and unregisters none of the open sockets, and
\* leaves run_bridge in its loop.
C10_FailedRebuildKeepsState ==
  [][lastOp'.reconn \in {"buildfail", "setupfail"}
       => /\ mapper' = mapper
          /\ groups' = groups
          /\ runtime_groups' = runtime_groups
          /\ sel' = sel
          /\ sockOpen \subseteq sockOpen'
          /\ SeqToSet(runtime_groups') \subseteq sockOpen' \cap sel'.reg
          /\ pc' \in {"select", "window", "keepalive", "reapply", "idle",
                      "watchdog", "packets"}]_vars

\* a rebuild has failed in setup_runtime after binding a socket, and the
\* running Groups still listen
C10_Witness ==
  /\ lastOp.reconn = "setupfail"
  /\ sockOpen \ DOMAIN G # {}
  /\ SeqToSet(runtime_groups) \subseteq sockOpen \cap sel.reg
  /\ Running

C12_StickyDdp ==
  (lastOp.op = "packet"
     /\ lastOp.received
     /\ lastOp.g \in DOMAIN G
     /\ G[lastOp.g].ddp_auto)
    => lastOp.decoder = "ddp"

\* C13: a mode change never re-enumerates.  apply_mode_change leaves the
\* LedMapper as it is, none of the sockets of the old runtime is open after
\* it (they are closed before the new ones are bound), and every Group of
\* the new runtime is sized on the devices of that same LedMapper.
C13_ModeChangeKeepsMapper ==
  [][lastOp'.op = "mode_change"
       => /\ mapper' = mapper
          /\ SeqToSet(runtime_groups) \cap sockOpen' = {}
          /\ pc' # "crashed"
               => \A id \in SeqToSet(runtime_groups') :
                    /\ id \in sockOpen'
                    /\ G'[id].led_count = LedCount(id[2], mapper.devices)
                    /\ Len(G'[id].frame_buffer) = 3 * G'[id].led_count]_vars

\* a mode change has bound the port the old runtime held: fusion was asked
\* for in group mode, no fusion device is there, and group mode was set up
\* again on the port of the Group just closed
C13_Witness ==
  /\ lastOp.op = "mode_change"
  /\ lastOp.prev_mode = "group"
  /\ mode = "group"
  /\ pc = "keepalive"
  /\ runtime_groups # << >>

\* C14: after a mode-change request the bridge runs either the requested
\* mode or the mode it was running before the request.
C14_RequestedOrPreviousMode ==
  lastOp.op = "mode_change" => mode \in {lastOp.requested, lastOp.prev_mode}

\* two entries of the list select a same enumerated device
SharedDevice(cfg, devices) ==
  \E i, j \in 1..Len(cfg) :
    i # j /\ SelectedDevices(cfg[i], devices) \cap SelectedDevices(cfg[j], devices) # {}

\* C15: no device is shared.  No device id is in the device_ids of two
\* Groups of a built topology, and when two Group entries of config.json
\* select a same device, building the unique-mode topology ends with the
\* RuntimeError (run_bridge prints it and returns 1) and builds no Group.
C15_NoSharedDevice ==
  /\ \A i, j \in 1..Len(groups) :
       i # j => DeviceIds(groups[i][2], mapper.devices)
                  \cap DeviceIds(groups[j][2], mapper.devices) = {}
  /\ (mode = "unique"
        /\ lastOp.op \in {"get_groups", "setup_runtime"}
        /\ SharedDevice(cfg_groups, mapper.devices))
       => (pc = "returned1" /\ groups = << >>)

\* build_groups has refused a list whose entries all have a udp_port and of
\* which two select a same device
C15_Witness ==
  /\ lastOp.op = "get_groups"
  /\ mode = "unique"
  /\ \A i \in 1..Len(cfg_groups) : HasUdpPort(cfg_groups[i])
  /\ SharedDevice(cfg_groups, mapper.devices)
  /\ pc = "returned1"

\* two Groups of the topology that have LEDs listen on a same port
SharedPort(gs, devices) ==
  \E i, j \in 1..Len(gs) :
    /\ i # j
    /\ LedCount(gs[i][2], devices) > 0
    /\ LedCount(gs[j][2], devices) > 0
    /\ PortOf(gs[i][2]) = PortOf(gs[j][2])

\* C16: port exclusivity.  The Groups of a runtime made by setup_runtime
\* listen on pairwise distinct ports, each on an open registered socket of
\* its own, with a frame buffer of its own; a topology of which two Groups
\* with LEDs share a port is refused by setup_runtime with an error and no
\* Group of it runs.
C16_PortExclusivity ==
  /\ \A i, j \in 1..Len(runtime_groups) :
       i # j => /\ runtime_groups[i] # runtime_groups[j]
                /\ PortOf(runtime_groups[i][2]) # PortOf(runtime_groups[j][2])
  /\ lastOp.op = "setup_runtime" /\ pc = "select"
       => \A i \in 1..Len(runtime_groups) :
            /\ runtime_groups[i] \in sockOpen \cap sel.reg
            /\ runtime_groups[i] \in DOMAIN G
            /\ Len(G[runtime_groups[i]].frame_buffer)
                 = 3 * G[runtime_groups[i]].led_count
  /\ (lastOp.op = "setup_runtime" /\ SharedPort(groups, mapper.devices))
       => (pc = "crashed" /\ runtime_groups = << >>)

\* setup_runtime has refused a topology of two Groups on one port
C16_Witness ==
  /\ lastOp.op = "setup_runtime"
  /\ SharedPort(groups, mapper.devices)
  /\ pc = "crashed"

\* C17: an unrecoverable failure of the start (no LED, topology that cannot
\* be built, runtime that cannot be set up) makes run_bridge return a
\* non-zero status; no exception leaves run_bridge.
C17_StartupFailureReturnsStatus ==
  lastOp.op \in {"build_mapper", "get_groups", "setup_runtime"} => pc # "crashed"

\* C18: frame buffers are never resized.  The frame buffer of every Group
\* has length 3 * led_count, whatever datagram a decoder (DDP, sub-protocols
\* 1 to 4, raw fallback, raw protocol) has written into it and after the
\* idle-clear has blanked it.
C18_BufferLength ==
  \A id \in DOMAIN G : Len(G[id].frame_buffer) = 3 * G[id].led_count

\* a decoder has written into the buffer from a datagram that carries more
\* bytes than the buffer holds
C18_Witness ==
  /\ lastOp.op = "decode"
  /\ lastOp.decoder \in {"ddp", "raw", "wled"}
  /\ Len(lastOp.data) > 14 + Len(lastOp.fb_before)
  /\ G[lastOp.g].frame_buffer # lastOp.fb_before

\* the version bits of byte 0
VersionBits(data) ==
  (At(data, 0) \div 64) % 4

\* the datagram with bit 0 of byte 0 flipped
TogglePush(data) ==
  [data EXCEPT ![1] = IF @ % 2 = 1 THEN @ - 1 ELSE @ + 1]

\* C19: the DDP classifier rejects every datagram whose version bits are 00,
\* and classifies two datagrams that differ only in the push bit alike.
C19_VersionAndPush ==
  (lastOp.op = "decode" /\ lastOp.data # << >>)
    => /\ VersionBits(lastOp.data) = 0 => ~lastOp.ddp_like
       /\ lastOp.ddp_like = looks_like_ddp(TogglePush(lastOp.data))

\* a datagram with a complete header, a declared length that fits and
\* version bits 00 has been classified
C19_Witness ==
  /\ lastOp.op = "decode"
  /\ Len(lastOp.data) >= 14
  /\ VersionBits(lastOp.data) = 0
  /\ FromBytesBig(Slice(lastOp.data, 8, 10)) = 0
  /\ ~lastOp.ddp_like

\* C20: the DDP classifier recognises every datagram with non-zero version
\* bits and a complete header (10 bytes, or 14 with the timecode flag),
\* whatever its declared length.
C20_AcceptsAnyLength ==
  (lastOp.op = "decode"
     /\ Len(lastOp.data) >= 10
     /\ VersionBits(lastOp.data) # 0
     /\ Len(lastOp.data) >= DdpHeaderLen(lastOp.data))
    => lastOp.ddp_like

\* the offset and the declared length of a DDP header
DdpOffset(data) ==
  FromBytesBig(Slice(data, 4, 8))

DdpLength(data) ==
  FromBytesBig(Slice(data, 8, 10))

\* the buffer `after` holds `payload` from `offset` on, clipped to the
\* buffer, and the bytes of `before` everywhere else
PlacedAt(before, after, offset, payload) ==
  /\ Len(after) = Len(before)
  /\ \A i \in 0..(Len(before) - 1) :
       At(after, i) = IF offset <= i /\ i < offset + Len(payload)
                      THEN At(payload, i - offset)
                      ELSE At(before, i)

\* a datagram has been decoded by parse_ddp, which returned
DdpDecoded ==
  lastOp.op = "decode" /\ lastOp.decoder = "ddp" /\ pc # "crashed"

\* C21 as stated: parse_ddp places the whole remainder when the declared
\* length is 0 and else the remainder truncated to the declared length.
C21_TruncatedToDeclared ==
  DdpDecoded
    => LET rem == SliceFrom(lastOp.data, DdpHeaderLen(lastOp.data))
           payload == IF DdpLength(lastOp.data) = 0 THEN rem
                      ELSE Slice(rem, 0, DdpLength(lastOp.data))
       IN  PlacedAt(lastOp.fb_before, G[lastOp.g].frame_buffer,
                    DdpOffset(lastOp.data), payload)

\* C21: DDP payload placement.  parse_ddp copies the payload - the whole
\* remainder when the declared length is 0 or a third of the size of the
\* remainder, else the remainder truncated to the declared length - to the
\* frame buffer at the offset, clipped to the buffer; every other byte keeps
\* its value, and the returned value is the push bit.
C21_Placement ==
  DdpDecoded
    => LET rem == SliceFrom(lastOp.data, DdpHeaderLen(lastOp.data))
           len == DdpLength(lastOp.data)
           payload == IF len = 0 \/ len * 3 = Len(rem) THEN rem
                      ELSE Slice(rem, 0, len)
       IN  /\ PlacedAt(lastOp.fb_before, G[lastOp.g].frame_buffer,
                       DdpOffset(lastOp.data), payload)
           /\ parse_ddp(lastOp.data, lastOp.fb_before) = (PushBit(lastOp.data) = 1)

\* parse_ddp has written at an offset inside the buffer a payload that
\* reaches beyond the end of the buffer
C21_Witness ==
  /\ DdpDecoded
  /\ DdpOffset(lastOp.data) > 0
  /\ DdpOffset(lastOp.data) < Len(lastOp.fb_before)
  /\ DdpLength(lastOp.data) = 4
  /\ Len(lastOp.data) > 10 + Len(lastOp.fb_before)
  /\ G[lastOp.g].frame_buffer # lastOp.fb_before

\* the buffer `after` holds `payload` from its start on, truncated to the
\* buffer, and 0 everywhere else
DenseFilled(before, after, payload) ==
  /\ Len(after) = Len(before)
  /\ \A i \in 0..(Len(before) - 1) :
       At(after, i) = IF i < Len(payload) THEN At(payload, i) ELSE 0

\* a datagram of notification-protocol code 2 has been decoded by
\* parse_wled_or_raw
Code2Decoded ==
  /\ lastOp.op = "decode"
  /\ lastOp.decoder = "wled"
  /\ Len(lastOp.data) >= 2
  /\ At(lastOp.data, 0) = 2

\* C22 as stated: for every payload length, code 2 copies the bytes that
\* follow the 2-byte header to the start of the buffer and zeroes the rest.
C22_DenseAfterTwoByteHeader ==
  Code2Decoded
    => DenseFilled(lastOp.fb_before, G[lastOp.g].frame_buffer,
                   SliceFrom(lastOp.data, 2))

\* C22: code 2 (dense RGB).  parse_wled_or_raw copies the RGB bytes to the
\* start of the frame buffer, truncated to the buffer, and sets every other
\* byte of the buffer to 0; the RGB bytes are the ones after the first byte
\* when their number is a multiple of 3, else the ones after the 2-byte
\* header.
C22_DenseCopy ==
  Code2Decoded
    => DenseFilled(lastOp.fb_before, G[lastOp.g].frame_buffer,
                   IF (Len(lastOp.data) - 1) % 3 = 0
                   THEN SliceFrom(lastOp.data, 1)
                   ELSE SliceFrom(lastOp.data, 2))

\* code 2 has copied three bytes into a buffer of six that held no zero,
\* and zeroed the other three
C22_Witness ==
  /\ Code2Decoded
  /\ Len(lastOp.data) = 5
  /\ lastOp.fb_before = << 7, 7, 7, 7, 7, 7 >>
  /\ G[lastOp.g].frame_buffer = SliceFrom(lastOp.data, 2) \o << 0, 0, 0 >>

\* C23: pump left/right pairing.  After apply_frame_map, the two LEDs of
\* every pair made by _build_pump_lr_pairs hold the same colour: the LED of
\* a Map Entry with a source index holds the colour of the LED of the entry
\* appended just before it, the first LED of its pair.
C23_PairSameColour ==
  pc = "pump_applied"
    => \A id \in DOMAIN G : \A k \in 2..Len(G[id].map) :
         G[id].map[k].src # << >>
           => mapper.colors[<< "aio", G[id].map[k].led >>]
                = mapper.colors[<< "aio", G[id].map[k - 1].led >>]

\* the sequence holds each of 0..n-1 exactly once
IsPermutation(seq, n) ==
  /\ Len(seq) = n
  /\ \A i \in 0..(n - 1) : \E k \in 1..n : seq[k] = i

\* C24: every Order used to build a Group map is a permutation: the LED
\* indices of the map built from get_device_order hold each index of the
\* device exactly once.
C24_OrderIsPermutation ==
  pc = "order_built"
    => \A id \in DOMAIN G :
         IsPermutation([j \in 1..Len(G[id].map) |-> G[id].map[j].led],
                       Cardinality(DOMAIN mapper.colors))

\* C25: the result of _normalize_group_order is None or a permutation of
\* 0..count-1.
C25_NormalizedIsPermutation ==
  lastOp.op = "fan_ring"
    => (lastOp.result = << >> \/ IsPermutation(lastOp.result, lastOp.args[2]))

\* C26: the fusion map has no duplicate target: no (device, LED index) pair
\* is the target of two Map Entries of the Group built by
\* build_group_fusion.
C26_NoDuplicateTarget ==
  pc = "fusion_built"
    => \A id \in DOMAIN G : \A i, j \in 1..Len(G[id].map) :
         (G[id].map[i].dev = G[id].map[j].dev /\ G[id].map[i].led = G[id].map[j].led)
           => i = j

\* C27: the rows of the serpentine order follow row_order whichever way they
\* were found: ascending Y for "top", descending Y for "bottom", with the
\* Y-tolerance sweep as with an explicit rows_count.
C27_RowOrderHonoured ==
  pc = "serp_done"
    => LET rows == lastOp.result.rows
       IN  \A i, j \in 1..Len(rows) : \A a \in 1..Len(rows[i]), b \in 1..Len(rows[j]) :
             i < j => IF lastOp.args.row_order = "bottom"
                      THEN rows[i][a].y >= rows[j][b].y
                      ELSE rows[i][a].y <= rows[j][b].y

\* C28: the watchdog escalates only at the threshold: a reconnect with
\* reason "watchdog" is attempted only by a failed connectivity check that
\* follows watchdog_fail_threshold - 1 counted failures; the count grows by
\* one per failed check, returns to 0 on a successful check, on an idle skip
\* and when the threshold is reached, is touched by no other step, and so is
\* below the threshold after every loop iteration.
C28_WatchdogEscalation ==
  [][/\ ~(pc = "watchdog" /\ pc' \in {"select", "packets"})
          => watchdog_fail_count' = watchdog_fail_count
     /\ (pc = "watchdog" /\ pc' \in {"select", "packets"}) =>
          LET due == watchdog_enabled /\ now - last_watchdog >= watchdog_interval
              idle == ~WatchdogActiveRecent(now)
          IN  /\ watchdog_fail_count' < watchdog_fail_threshold
              /\ lastOp'.reconn # "none"
                   => /\ due
                      /\ watchdog_fail_count = watchdog_fail_threshold - 1
                      /\ watchdog_fail_count' = 0
              /\ watchdog_fail_count' # watchdog_fail_count
                   => /\ due
                      /\ \/ watchdog_fail_count' = 0
                         \/ watchdog_fail_count' = watchdog_fail_count + 1 /\ ~idle
              /\ (due /\ skip_reconnect_when_idle /\ idle) => watchdog_fail_count' = 0
              /\ (due /\ lastOp'.reconn = "none"
                      /\ watchdog_fail_count' # watchdog_fail_count + 1)
                   => watchdog_fail_count' = 0
    ]_vars

\* the watchdog has attempted a reconnect
C28_Witness ==
  /\ lastOp.op = "watchdog"
  /\ lastOp.reconn # "none"
  /\ watchdog_fail_count = 0

\* C29: idle-clear follows the current operating mode: while the loop runs,
\* idle-clear is active exactly when the mode in force is "unique" and
\* unique_idle_clear is enabled, also after mode changes.
C29_IdleClearFollowsMode ==
  Running => (unique_idle_clear_enabled <=> (mode = "unique" /\ unique_idle_clear))

\* the parts of C30 on the threads: at most one worker thread lives, a
\* thread inside a guarded block holds update_lock, and a worker that is
\* fetching does not hold it, so the loop thread never waits for a fetch
UpdateThreadsSafe ==
  /\ Len(update_threads.workers) <= 1
  /\ pc \in {"upd_start", "upd_poll"} <=> update_threads.lock = << "loop", 0 >>
  /\ \A i \in 1..Len(update_threads.workers) :
       LET w == update_threads.workers[i]
       IN  /\ w.pc \in {"store", "final"} <=> update_threads.lock = << "worker", w.id >>
           /\ w.pc = "fetch" => update_threads.lock # << "worker", w.id >>

\* "pending" is written only by the thread that holds update_lock
PendingUnderLock ==
  update_state'.pending # update_state.pending => update_threads.lock # << >>

\* C30 as stated: the worker and the loop never race, and a release version
\* is notified at most once per run.
C30_NoRaceNotifiedOnce ==
  /\ []UpdateThreadsSafe
  /\ [][PendingUnderLock]_vars
  /\ [](\A i, j \in 1..Len(update_threads.notified) :
          update_threads.notified[i] = update_threads.notified[j] => i = j)

\* C30 amended: the worker and the loop never race, and a release version
\* is never notified twice in a row: every notification differs from the
\* one before it.
C30_NoRaceNoRepeat ==
  /\ []UpdateThreadsSafe
  /\ [][PendingUnderLock]_vars
  /\ [](\A i \in 2..Len(update_threads.notified) :
          update_threads.notified[i] # update_threads.notified[i - 1])

\* a second worker has run after the first, and two versions were notified
C30_Witness ==
  /\ update_threads.started >= 2
  /\ Len(update_threads.notified) >= 2
  /\ Len(update_threads.workers) = 1
  /\ update_threads.workers[1].pc = "fetch"
  /\ pc = "upd_poll_wait"

====
